---- MODULE Spec2Model ----
(***************************************************************************)
(* MoodiMovies-AI: the personality scoring pipeline.                       *)
(*                                                                         *)
(*   app/agents/calculators/python_score_calculator.py  PythonScoreCalculator *)
(*   app/agents/personality_profiler.py   validator, saver, orchestrator   *)
(*   app/db/repositories.py               ProfileRepository.save_profile   *)
(*                                                                         *)
(* Decimal values are modelled exactly: a value is a rational [num, den]   *)
(* in lowest terms, and a quantized (two-place) Decimal is its integer     *)
(* number of hundredths.  Python's Decimal context keeps 28 significant    *)
(* digits; for the item counts of this model no intermediate result is     *)
(* within 10^-27 of a rounding boundary without lying on it exactly, so    *)
(* the exact rational and the 28-digit Decimal quantize to the same value. *)
(***************************************************************************)
EXTENDS Integers, Sequences, FiniteSets, TLC

VARIABLES
    settings,   \* Settings.PERSONALITY_MEAN / PERSONALITY_STD_DEV, in hundredths
    calc,       \* one PythonScoreCalculator call: its input, locals and result
    unit,       \* one call of validate or of a calculator step on its own
    store,      \* MOODMOVIES_PERSONALITY_PROFILES: the set of profile rows
    clock,      \* the database's GETDATE()
    nextId,     \* dbo.id_generator's sequence
    task,       \* per task: the position and locals of process_user_test
    hist        \* per task: what the run has called, written and returned

vars == <<settings, calc, unit, store, clock, nextId, task, hist>>

-----------------------------------------------------------------------------
(* Bounds of the model *)

\* longest list of answered items handed to the calculator
MaxItems == 3
\* runs of process_user_test started over a behaviour
MaxRuns == 3
\* ticks of the database clock
MaxClock == 1

-----------------------------------------------------------------------------
(* Python values *)

\* None
None == <<>>

Abs(x) == IF x < 0 THEN -x ELSE x

RECURSIVE Gcd(_, _)
Gcd(a, b) == IF b = 0 THEN a ELSE Gcd(b, a % b)

\* a Decimal value as an exact fraction in lowest terms, den > 0
Rat(n, d) ==
    LET s == IF d < 0 THEN -1 ELSE 1
        g == Gcd(Abs(n), Abs(d))
    IN  [num |-> (s * n) \div g, den |-> (s * d) \div g]

RatInt(i) == [num |-> i, den |-> 1]
RatAdd(a, b) == Rat(a.num * b.den + b.num * a.den, a.den * b.den)
RatSub(a, b) == Rat(a.num * b.den - b.num * a.den, a.den * b.den)
RatMul(a, b) == Rat(a.num * b.num, a.den * b.den)
RatDiv(a, b) == Rat(a.num * b.den, a.den * b.num)
RatLt(a, b) == a.num * b.den < b.num * a.den

\* Decimal(str(x)) of a float setting given in hundredths
DecimalOfSetting(h) == Rat(h, 100)
\* the Decimal a quantized value (integer hundredths) stands for
DecimalOfHundredths(h) == Rat(h, 100)

RECURSIVE SumSeq(_)
SumSeq(s) == IF s = <<>> THEN 0 ELSE Head(s) + SumSeq(Tail(s))

\* str.lower() on the characters that occur in facet and domain codes
Lower(ch) ==
    CASE ch = "O" -> "o" [] ch = "C" -> "c" [] ch = "E" -> "e"
      [] ch = "A" -> "a" [] ch = "N" -> "n" [] ch = "F" -> "f"
      [] ch = "X" -> "x" [] OTHER -> ch

-----------------------------------------------------------------------------
(* PythonScoreCalculator: class-level constants *)

EXPECTED_DOMAINS == {"O", "C", "E", "A", "N"}
API_DOMAINS == {"o", "c", "e", "a", "n"}
EXPECTED_FACETS_PER_DOMAIN == 6
T_SCORE_MEAN == 50
T_SCORE_STD_DEV == 10

\* f"{domain}_F{i}": a facet code is the triple of its parts; "" is <<>>
FacetCode(domain, i) == <<domain, "F", i>>

\* Decimal.quantize(Decimal("0.01"), rounding=ROUND_HALF_UP): the hundredths
\* nearest to the value, a tie going away from zero
Quantize(r) ==
    LET n == 100 * r.num
        q == (2 * Abs(n) + r.den) \div (2 * r.den)
    IN  IF n < 0 THEN -q ELSE q

\* Decimal.quantize with ROUND_HALF_EVEN and ROUND_DOWN, for comparison
QuantizeHalfEven(r) ==
    LET n == 100 * r.num
        f == Abs(n) \div r.den
        rem2 == 2 * (Abs(n) % r.den)
        q == IF rem2 > r.den \/ (rem2 = r.den /\ f % 2 = 1) THEN f + 1 ELSE f
    IN  IF n < 0 THEN -q ELSE q

QuantizeDown(r) ==
    LET n == 100 * r.num
        q == Abs(n) \div r.den
    IN  IF n < 0 THEN -q ELSE q

\* the 30 facet codes _calculate_facet_means generates
all_facet_codes ==
    {FacetCode(domain, i) : domain \in EXPECTED_DOMAINS,
                            i \in 1..EXPECTED_FACETS_PER_DOMAIN}

\* an __init__ that does not look at the deviation
PythonScoreCalculatorUnchecked(s) ==
    [raised |-> FALSE,
     personality_mean |-> DecimalOfSetting(s.PERSONALITY_MEAN),
     personality_std_dev |-> DecimalOfSetting(s.PERSONALITY_STD_DEV)]

\* __init__: the calculator instance, or a ValueError for a zero deviation
PythonScoreCalculator(s) ==
    LET personality_mean == DecimalOfSetting(s.PERSONALITY_MEAN)
        personality_std_dev == DecimalOfSetting(s.PERSONALITY_STD_DEV)
    IN  IF personality_std_dev.num = 0
        THEN [raised |-> TRUE,
              msg |-> <<"Personality standard deviation cannot be zero.">>]
        ELSE [raised |-> FALSE,
              personality_mean |-> personality_mean,
              personality_std_dev |-> personality_std_dev]

\* a group that keeps the last value only
DictReplace(d, k, v) ==
    [c \in (DOMAIN d) \cup {k} |-> IF c = k THEN <<v>> ELSE d[c]]

\* facet_adjusted_scores[code].append(v) on a defaultdict(list)
DictAppend(d, k, v) ==
    [c \in (DOMAIN d) \cup {k} |->
        IF c = k THEN (IF k \in DOMAIN d THEN Append(d[k], v) ELSE <<v>>)
                 ELSE d[c]]

EmptyDict == [c \in {} |-> 0]

\* one iteration of the loop of _group_and_adjust_scores
GroupOneNoReverse(acc, resp) ==
    IF resp.point = None
    THEN acc
    ELSE LET adjusted_score == resp.point[1]
         IN  IF adjusted_score < 1 \/ adjusted_score > 5
             THEN acc
             ELSE IF resp.facet_code # <<>>
                  THEN DictAppend(acc, resp.facet_code, adjusted_score)
                  ELSE acc

\* an iteration without the range check
GroupOneKeepsOutOfRange(acc, resp) ==
    IF resp.point = None
    THEN acc
    ELSE LET point_decimal == resp.point[1]
             adjusted_score == IF resp.reverse_scored
                               THEN 6 - point_decimal
                               ELSE point_decimal
         IN  IF resp.facet_code # <<>>
             THEN DictAppend(acc, resp.facet_code, adjusted_score)
             ELSE acc

\* an iteration that groups under the upper-cased facet code
GroupOneFoldsCase(acc, resp) ==
    IF resp.point = None
    THEN acc
    ELSE LET point_decimal == resp.point[1]
             adjusted_score == IF resp.reverse_scored
                               THEN 6 - point_decimal
                               ELSE point_decimal
         IN  IF adjusted_score < 1 \/ adjusted_score > 5
             THEN acc
             ELSE IF resp.facet_code # <<>>
                  THEN DictAppend(acc,
                           <<IF resp.facet_code[1] = "o" THEN "O"
                             ELSE resp.facet_code[1],
                             "F", resp.facet_code[3]>>,
                           adjusted_score)
                  ELSE acc

GroupOne(acc, resp) ==
    IF resp.point = None
    THEN acc
    ELSE LET point_decimal == resp.point[1]
             adjusted_score == IF resp.reverse_scored
                               THEN 6 - point_decimal
                               ELSE point_decimal
         IN  IF adjusted_score < 1 \/ adjusted_score > 5
             THEN acc
             ELSE IF resp.facet_code # <<>>
                  THEN DictAppend(acc, resp.facet_code, adjusted_score)
                  ELSE acc

RECURSIVE GroupLoop(_, _)
GroupLoop(responses, acc) ==
    IF responses = <<>> THEN acc
    ELSE GroupLoop(Tail(responses), GroupOne(acc, Head(responses)))

\* Step 1
_group_and_adjust_scores(responses) == GroupLoop(responses, EmptyDict)

\* Step 2
FacetMeansNoDefault(self, facet_adjusted_scores) ==
    [facet_code \in DOMAIN facet_adjusted_scores |->
        RatDiv(RatInt(SumSeq(facet_adjusted_scores[facet_code])),
               RatInt(Len(facet_adjusted_scores[facet_code])))]

\* step 2 with the default raw score fixed at 3
FacetMeansFixedDefault(self, facet_adjusted_scores) ==
    [facet_code \in all_facet_codes |->
        LET scores_list == IF facet_code \in DOMAIN facet_adjusted_scores
                           THEN facet_adjusted_scores[facet_code]
                           ELSE <<>>
        IN  IF scores_list # <<>>
            THEN RatDiv(RatInt(SumSeq(scores_list)), RatInt(Len(scores_list)))
            ELSE RatInt(3)]

_calculate_facet_means(self, facet_adjusted_scores) ==
    [facet_code \in all_facet_codes |->
        LET scores_list == IF facet_code \in DOMAIN facet_adjusted_scores
                           THEN facet_adjusted_scores[facet_code]
                           ELSE <<>>
        IN  IF scores_list # <<>>
            THEN RatDiv(RatInt(SumSeq(scores_list)), RatInt(Len(scores_list)))
            ELSE self.personality_mean]

\* Step 3
_calculate_z_scores(self, raw_facet_scores) ==
    [facet_code \in DOMAIN raw_facet_scores |->
        RatDiv(RatSub(raw_facet_scores[facet_code], self.personality_mean),
               self.personality_std_dev)]

\* Step 4
TScoresHalfEven(facet_z_scores) ==
    [facet_code \in DOMAIN facet_z_scores |->
        QuantizeHalfEven(RatAdd(RatInt(T_SCORE_MEAN),
                         RatMul(RatInt(T_SCORE_STD_DEV), facet_z_scores[facet_code])))]

\* T-scores with a deviation of 15 in place of T_SCORE_STD_DEV
TScoresWide(facet_z_scores) ==
    [facet_code \in DOMAIN facet_z_scores |->
        Quantize(RatAdd(RatInt(T_SCORE_MEAN),
                        RatMul(RatInt(15), facet_z_scores[facet_code])))]

_calculate_t_scores(facet_z_scores) ==
    [facet_code \in DOMAIN facet_z_scores |->
        Quantize(RatAdd(RatInt(T_SCORE_MEAN),
                        RatMul(RatInt(T_SCORE_STD_DEV), facet_z_scores[facet_code])))]

\* Step 5: the facet T-scores of one domain that are present
RelevantFacetCodes(domain, facet_t_scores) ==
    {FacetCode(domain, i) : i \in 1..EXPECTED_FACETS_PER_DOMAIN}
        \cap DOMAIN facet_t_scores

RECURSIVE SumOver(_, _)
SumOver(f, S) ==
    IF S = {} THEN 0
    ELSE LET x == CHOOSE y \in S : TRUE IN f[x] + SumOver(f, S \ {x})

\* Step 5: the domains with fewer than 6 facet scores raise; the loop over the
\* set EXPECTED_DOMAINS meets one of them first
DomainMeansDown(facet_t_scores) ==
    LET short == {d \in EXPECTED_DOMAINS :
                    Cardinality(RelevantFacetCodes(d, facet_t_scores))
                        # EXPECTED_FACETS_PER_DOMAIN}
    IN  IF short # {}
        THEN [raised |-> TRUE, domains |-> short,
              found |-> [d \in short |->
                  Cardinality(RelevantFacetCodes(d, facet_t_scores))]]
        ELSE [raised |-> FALSE,
              value |-> [d \in EXPECTED_DOMAINS |->
                  QuantizeDown(RatDiv(
                      DecimalOfHundredths(
                          SumOver(facet_t_scores, RelevantFacetCodes(d, facet_t_scores))),
                      RatInt(EXPECTED_FACETS_PER_DOMAIN)))]]

\* a step that averages whatever facet scores a domain has
DomainMeansOfPresent(facet_t_scores) ==
    LET short == {d \in EXPECTED_DOMAINS :
                    RelevantFacetCodes(d, facet_t_scores) = {}}
    IN  IF short # {}
        THEN [raised |-> TRUE, domains |-> short,
              found |-> [d \in short |-> 0]]
        ELSE [raised |-> FALSE,
              value |-> [d \in EXPECTED_DOMAINS |->
                  Quantize(RatDiv(
                      DecimalOfHundredths(
                          SumOver(facet_t_scores, RelevantFacetCodes(d, facet_t_scores))),
                      RatInt(Cardinality(RelevantFacetCodes(d, facet_t_scores)))))]]

_calculate_domain_means(facet_t_scores) ==
    LET short == {d \in EXPECTED_DOMAINS :
                    Cardinality(RelevantFacetCodes(d, facet_t_scores))
                        # EXPECTED_FACETS_PER_DOMAIN}
    IN  IF short # {}
        THEN [raised |-> TRUE, domains |-> short,
              found |-> [d \in short |->
                  Cardinality(RelevantFacetCodes(d, facet_t_scores))]]
        ELSE [raised |-> FALSE,
              value |-> [d \in EXPECTED_DOMAINS |->
                  Quantize(RatDiv(
                      DecimalOfHundredths(
                          SumOver(facet_t_scores, RelevantFacetCodes(d, facet_t_scores))),
                      RatInt(EXPECTED_FACETS_PER_DOMAIN)))]]

\* Step 6: k.split('_') lower-cased part by part
LowerCode(code) == <<Lower(code[1]), Lower(code[2]), code[3]>>

_format_output(domain_t_scores, facet_t_scores) ==
    LET lowercase_facet_scores ==
            [k \in {LowerCode(c) : c \in DOMAIN facet_t_scores} |->
                facet_t_scores[CHOOSE c \in DOMAIN facet_t_scores : LowerCode(c) = k]]
    IN  [k \in {Lower(d) : d \in DOMAIN domain_t_scores} \cup {"facets"} |->
            IF k = "facets" THEN lowercase_facet_scores
            ELSE domain_t_scores[CHOOSE d \in DOMAIN domain_t_scores : Lower(d) = k]]

\* calculate_scores: the six steps; any exception becomes a ValueError
calculate_scores(self, responses) ==
    LET facet_adjusted_scores == _group_and_adjust_scores(responses)
        raw_facet_scores == _calculate_facet_means(self, facet_adjusted_scores)
        facet_z_scores == _calculate_z_scores(self, raw_facet_scores)
        facet_t_scores == _calculate_t_scores(facet_z_scores)
        domain_t_scores == _calculate_domain_means(facet_t_scores)
    IN  IF domain_t_scores.raised
        THEN [raised |-> TRUE,
              msg |-> <<"Score calculation failed: ", "Domain has facets with scores, expected 6">>,
              facet_adjusted_scores |-> facet_adjusted_scores,
              facet_t_scores |-> facet_t_scores]
        ELSE [raised |-> FALSE,
              value |-> _format_output(domain_t_scores.value, facet_t_scores),
              facet_adjusted_scores |-> facet_adjusted_scores,
              facet_t_scores |-> facet_t_scores]

-----------------------------------------------------------------------------
(* The calculator on its own: one instance, one call of calculate_scores *)

\* Settings(): the default (mean 3.0, deviation 0.5), an override giving
\* rounding ties and out-of-band T-scores (deviation 0.32), a zero deviation,
\* another mean with a negative deviation (2.75, -0.5)
DefaultSettings == [PERSONALITY_MEAN |-> 300, PERSONALITY_STD_DEV |-> 50]
SettingsChoices ==
    {DefaultSettings,
     [PERSONALITY_MEAN |-> 300, PERSONALITY_STD_DEV |-> 32],
     [PERSONALITY_MEAN |-> 300, PERSONALITY_STD_DEV |-> 0],
     [PERSONALITY_MEAN |-> 275, PERSONALITY_STD_DEV |-> -50]}

Item(code, point, reverse) ==
    [facet_code |-> code, point |-> point, reverse_scored |-> reverse]

\* answered items the calculator is handed: normal and reverse-scored ones,
\* points outside 1..5, a NULL point, a missing and an unknown facet code
ItemUniverse ==
    {Item(FacetCode("O", 1), <<4>>, FALSE),
     Item(FacetCode("O", 1), <<3>>, FALSE),
     Item(FacetCode("O", 1), <<1>>, TRUE),
     Item(FacetCode("O", 1), <<6>>, TRUE),
     Item(FacetCode("O", 2), <<0>>, FALSE),
     Item(FacetCode("O", 2), None, FALSE),
     Item(FacetCode("N", 6), <<2>>, TRUE),
     Item(FacetCode("N", 6), <<1>>, FALSE),
     Item(<<>>, <<3>>, FALSE),
     Item(FacetCode("O", 7), <<5>>, FALSE),
     Item(<<"o", "f", 1>>, <<5>>, FALSE),
     Item(FacetCode("X", 1), <<5>>, FALSE)}

ItemLists == UNION {[1..n -> ItemUniverse] : n \in 0..MaxItems}

NoCalc == [pc |-> "unused", responses |-> <<>>]
NoUnit == [pc |-> "unused"]

Tasks == {1, 2}
Users == {"u1", "u2"}

NoError == [raised |-> FALSE, kind |-> "", msg |-> [texts |-> <<>>, names |-> {}]]

IdleTask ==
    [pc |-> "idle", user_id |-> "", responses |-> <<>>, scores_dict |-> <<>>,
     validated_scores |-> <<>>, profile_scores |-> <<>>,
     is_new_profile |-> FALSE, profile_id_to_use |-> None,
     result |-> <<>>, error |-> NoError]

\* what is recorded about the current run of a task: the collaborators called,
\* the stage that raised and what it raised, whether a statement of the run has
\* changed the store, whether its save_profile call ran while another call for
\* the same user was under way
NoRun ==
    [calls |-> <<>>, raised_in |-> "",
     inner |-> [raised |-> FALSE, kind |-> "", msg |-> [texts |-> <<>>, names |-> {}]],
     wrote |-> FALSE, interleaved |-> FALSE]

InitHist ==
    [run |-> [p \in Tasks |-> NoRun],
     started |-> 0,
     returned |-> [u \in Users |-> {}],
     ops |-> [u \in Users |-> <<>>],
     overlapped |-> [u \in Users |-> FALSE]]

InitCalc ==
    /\ settings \in SettingsChoices
    /\ calc \in {[pc |-> "new", responses |-> r] : r \in ItemLists}
    /\ unit = NoUnit
    /\ store = {}
    /\ clock = 0
    /\ nextId = 1
    /\ task = [p \in Tasks |-> IdleTask]
    /\ hist = InitHist

\* PythonScoreCalculator(settings)
Construct ==
    /\ calc.pc = "new"
    /\ LET self == PythonScoreCalculator(settings)
       IN  calc' = IF self.raised
                   THEN [pc |-> "init_raised", responses |-> calc.responses,
                         error |-> self.msg]
                   ELSE [pc |-> "ready", responses |-> calc.responses,
                         self |-> self]
    /\ UNCHANGED <<settings, unit, store, clock, nextId, task, hist>>

\* await calculator.calculate_scores(responses)
CalculateScores ==
    /\ calc.pc = "ready"
    /\ LET out == calculate_scores(calc.self, calc.responses)
       IN  calc' = [pc |-> IF out.raised THEN "raised" ELSE "returned",
                    responses |-> calc.responses,
                    self |-> calc.self,
                    out |-> out]
    /\ UNCHANGED <<settings, unit, store, clock, nextId, task, hist>>

NextCalc == Construct \/ CalculateScores

SpecCalc == InitCalc /\ [][NextCalc]_vars

-----------------------------------------------------------------------------
(* Exceptions: the message is the sequence of its text pieces (str(e) of a
   wrapped exception is spliced in), with the keys it names kept apart *)

Msg(texts, names) == [texts |-> texts, names |-> names]
NoMsg == Msg(<<>>, {})

\* f"{prefix}{str(e)}"
Wrap(prefix, m) == Msg(prefix \o m.texts, m.names)

Raised(kind, m) == [raised |-> TRUE, kind |-> kind, msg |-> m]

-----------------------------------------------------------------------------
(* PersonalityResultValidator and ScoreResult *)

required_domains == {"o", "c", "e", "a", "n"}

\* five facets per domain
expected_facets_five == {<<domain, "f", i>> : domain \in {"o", "c", "e", "a", "n"}, i \in 1..5}

expected_facets == {<<domain, "f", i>> : domain \in required_domains, i \in 1..6}

\* a band without its end points
InBandExclusive(v) == 1000 < v /\ v < 9000

\* Decimal("10") <= v <= Decimal("90"), v in hundredths
InBand(v) == 1000 <= v /\ v <= 9000

\* a model that keeps whole numbers only
ScoreResultWhole(o, c, e, a, n, facets) ==
    {[raised |-> FALSE,
      value |-> [o |-> (o \div 100) * 100, c |-> (c \div 100) * 100,
                 e |-> (e \div 100) * 100, a |-> (a \div 100) * 100,
                 n |-> (n \div 100) * 100,
                 facets |-> [k \in DOMAIN facets |-> (facets[k] \div 100) * 100]]]}

\* ScoreResult(o=..., facets=...): check_facet_scores wants the 30 keys and
\* values within 0..100; further keys pass
ScoreResult(o, c, e, a, n, facets) ==
    LET missing_facets == expected_facets \ DOMAIN facets
        out_of_range == {k \in DOMAIN facets : ~(0 <= facets[k] /\ facets[k] <= 10000)}
    IN  IF missing_facets # {}
        THEN {Raised("ValueError", Msg(<<"Missing facets: ">>, missing_facets))}
        ELSE IF out_of_range # {}
        THEN {Raised("ValueError",
                     Msg(<<"Facet score out of reasonable range (0-100)">>, {k}))
                : k \in out_of_range}
        ELSE {[raised |-> FALSE,
               value |-> [o |-> o, c |-> c, e |-> e, a |-> a, n |-> n,
                          facets |-> facets]]}

\* a check that reports one of the missing domains only
MissingDomainsOne(scores) ==
    LET missing == required_domains \ DOMAIN scores
    IN  IF missing = {} THEN {} ELSE {CHOOSE d \in missing : TRUE}

\* missing_domains = required_domains - set(scores.keys())
MissingDomains(scores) == required_domains \ DOMAIN scores

\* validate(scores): every way the call can end.  The loops run over a set
\* (required_domains) and over the facets dict, whose orders are not fixed, so
\* with several offending values any of them can be the one reported.
validate(scores) ==
    LET missing_domains == MissingDomains(scores)
    IN  IF missing_domains # {}
        THEN {Raised("ValidationError",
                     Msg(<<"Missing required domains: ">>,
                         {<<d>> : d \in missing_domains}))}
        ELSE
        LET bad_domains == {d \in required_domains : ~InBand(scores[d])}
        IN  IF bad_domains # {}
            THEN {Raised("ValidationError",
                         Msg(<<"Domain score must be between 10 and 90">>, {<<d>>}))
                    : d \in bad_domains}
            ELSE IF "facets" \notin DOMAIN scores
            THEN {Raised("ValidationError",
                         Msg(<<"Missing 'facets' dictionary in scores">>, {}))}
            ELSE
            LET facets == scores["facets"]
                missing_facets == expected_facets \ DOMAIN facets
                bad_facets == {k \in DOMAIN facets : ~InBand(facets[k])}
            IN  IF missing_facets # {}
                THEN {Raised("ValidationError",
                             Msg(<<"Missing facets: ">>, missing_facets))}
                ELSE IF bad_facets # {}
                THEN {Raised("ValidationError",
                             Msg(<<"Facet score must be between 10 and 90">>, {k}))
                        : k \in bad_facets}
                ELSE {IF r.raised
                      THEN Raised("ValidationError",
                                  Wrap(<<"Error creating ScoreResult model: ">>, r.msg))
                      ELSE r
                        : r \in ScoreResult(scores["o"], scores["c"], scores["e"],
                                            scores["a"], scores["n"], facets)}

-----------------------------------------------------------------------------
(* PersonalityProfileSaver and ProfileRepository.save_profile *)

\* PersonalityProfileSaver.save: the flat dict of 35 scores; key "o" is <<"o">>
ProfileScores(data) ==
    [k \in {<<d>> : d \in required_domains} \cup DOMAIN data.facets |->
        IF Len(k) = 1 THEN data[k[1]] ELSE data.facets[k]]

\* k.lower() of a key of the flat dict
LowerKey(k) == IF Len(k) = 1 THEN <<Lower(k[1])>> ELSE LowerCode(k)

\* a step 1 that finds nothing missing
MissingScoresNone(scores) == {}

\* save_profile, step 1: the keys that are missing
MissingScores(scores) ==
    LET have == {LowerKey(k) : k \in DOMAIN scores}
        missing_domains == {<<d>> : d \in required_domains} \ have
        missing_facets == expected_facets \ have
    IN  IF missing_domains # {} THEN missing_domains ELSE missing_facets

\* for domain in "ocean"
ocean == <<"o", "c", "e", "a", "n">>

\* step 4: score_params = domain_params + facet_params
ScoreParams(scores) ==
    [j \in 1..35 |->
        IF j <= 5 THEN scores[<<ocean[j]>>]
        ELSE scores[<<ocean[((j - 6) \div 6) + 1], "f", ((j - 6) % 6) + 1>>]]

\* the score columns as the INSERT and UPDATE statements list them
OCEAN == <<"O", "C", "E", "A", "N">>
ScoreColumns ==
    [j \in 1..35 |->
        IF j <= 5 THEN <<OCEAN[j]>>
        ELSE <<OCEAN[((j - 6) \div 6) + 1], "F", ((j - 6) % 6) + 1>>]

\* the parameters bound to the columns in reverse
BindMisordered(score_params) ==
    [col \in {ScoreColumns[j] : j \in 1..35} |->
        score_params[36 - (CHOOSE j \in 1..35 : ScoreColumns[j] = col)]]

\* the values bound to the columns, in the order of the parameters
Bind(score_params) ==
    [col \in {ScoreColumns[j] : j \in 1..35} |->
        score_params[CHOOSE j \in 1..35 : ScoreColumns[j] = col]]

\* a row of MOODMOVIES_PERSONALITY_PROFILES; by: the task whose statement
\* wrote it last (not a column)
Row(profile_id, user_id, created, cols, by) ==
    [PROFILE_ID |-> profile_id, USER_ID |-> user_id, CREATED |-> created,
     cols |-> cols, by |-> by]

\* a WHERE clause that does not look at the user
RowsOfAnyone(rows, user_id) == rows

RowsOf(rows, user_id) == {r \in rows : r.USER_ID = user_id}

\* a lookup that never finds a profile
NoExistingRows(rows, user_id) == {}

\* a lookup ordered by CREATED ASC
OldestProfileRows(rows, user_id) ==
    {r \in RowsOf(rows, user_id) :
        \A o \in RowsOf(rows, user_id) : r.CREATED <= o.CREATED}

\* SELECT TOP 1 PROFILE_ID ... WHERE USER_ID = ? ORDER BY CREATED DESC: the rows
\* the query can return first
ExistingProfileRows(rows, user_id) ==
    {r \in RowsOf(rows, user_id) :
        \A o \in RowsOf(rows, user_id) : o.CREATED <= r.CREATED}

\* dbo.id_generator 'PRO': the n-th identity as a string, and what str.strip()
\* makes of a string
Digits == <<"1", "2", "3", "4", "5", "6", "7", "8", "9">>
IdString(n) == <<"PRO", Digits[n]>>

RECURSIVE LStrip(_)
LStrip(str) ==
    IF str # <<>> /\ Head(str) = " " THEN LStrip(Tail(str)) ELSE str

RECURSIVE RStrip(_)
RStrip(str) ==
    IF str # <<>> /\ str[Len(str)] = " "
    THEN RStrip(SubSeq(str, 1, Len(str) - 1)) ELSE str

Strip(str) == RStrip(LStrip(str))

\* what the id_generator query can come back with: no row, a NULL, an empty or
\* blank string, the next identity bare or padded
GeneratedRows(n) ==
    {<<>>,
     <<[GeneratedID |-> None]>>,
     <<[GeneratedID |-> <<<<>>>>]>>,
     <<[GeneratedID |-> <<<<" ", " ">>>>]>>,
     <<[GeneratedID |-> <<IdString(n)>>]>>,
     <<[GeneratedID |-> <<<<" ">> \o IdString(n) \o <<" ">>>>]>>}

\* an INSERT that keeps one row per user
InsertUnlessPresent(rows, insert_params, now, by) ==
    IF RowsOf(rows, insert_params[2]) # {} THEN rows
    ELSE rows \cup {Row(insert_params[1], insert_params[2], now,
                        Bind(SubSeq(insert_params, 3, 37)), by)}

\* INSERT INTO MOODMOVIES_PERSONALITY_PROFILES ... VALUES (?, ?, GETDATE(), ...)
Insert(rows, insert_params, now, by) ==
    rows \cup {Row(insert_params[1], insert_params[2], now,
                   Bind(SubSeq(insert_params, 3, 37)), by)}

\* an UPDATE keyed by the user
UpdateKeyedByUser(rows, update_params, now, by) ==
    {IF r.USER_ID = update_params[1]
     THEN Row(r.PROFILE_ID, update_params[1], now,
              Bind(SubSeq(update_params, 2, 36)), by)
     ELSE r : r \in rows}

\* an UPDATE that sets the five domain columns and keeps the facet columns
UpdateDomainsOnly(rows, update_params, now, by) ==
    {IF r.PROFILE_ID = update_params[37]
     THEN Row(r.PROFILE_ID, update_params[1], now,
              [col \in DOMAIN r.cols |->
                  IF Len(col) = 1
                  THEN Bind(SubSeq(update_params, 2, 36))[col]
                  ELSE r.cols[col]], by)
     ELSE r : r \in rows}

\* UPDATE ... SET CREATED = GETDATE(), USER_ID = ?, ... WHERE PROFILE_ID = ?
Update(rows, update_params, now, by) ==
    {IF r.PROFILE_ID = update_params[37]
     THEN Row(r.PROFILE_ID, update_params[1], now,
              Bind(SubSeq(update_params, 2, 36)), by)
     ELSE r : r \in rows}

-----------------------------------------------------------------------------
(* PersonalityProfilerAgent.process_user_test, one run per task; the steps are
   the points where the coroutine awaits the database, plus one per stage *)

\* what get_user_responses finds for a user: nothing, one answer, two answers
\* (O_F1 = 5 leaves the band under deviation 0.32)
ResponseChoices ==
    {<<>>,
     <<Item(FacetCode("O", 1), <<4>>, FALSE)>>,
     <<Item(FacetCode("O", 1), <<5>>, FALSE), Item(FacetCode("N", 6), <<2>>, TRUE)>>}

\* an error of the database client (pyodbc.OperationalError -> ConnectionError)
DbError == Raised("ConnectionError", Msg(<<"Database connection error: ">>, {}))

\* an IScoreCalculator that raises (tests: side_effect = ValueError("Calc failed"))
CalcFault == Raised("ValueError", Msg(<<"Calc failed">>, {}))

ProfilerErrors ==
    {"PersonalityProfilerError", "PersonalityDataFetcherError",
     "ScoreCalculationError", "ValidationError", "ProfileSavingError"}

Stages == <<"fetch_data", "calculate_scores", "validate", "save">>

\* except clauses that let the exception through as it is
StageErrorBare(stage, e) == e

\* except clauses with the kinds of calculate and validate exchanged
StageErrorSwapped(stage, e) ==
    CASE stage = "fetch_data" ->
            Raised("PersonalityDataFetcherError", Wrap(<<"Error fetching data: ">>, e.msg))
      [] stage = "calculate_scores" ->
            Raised("ValidationError", Wrap(<<"Error validating scores: ">>, e.msg))
      [] stage = "validate" ->
            Raised("ScoreCalculationError", Wrap(<<"Error calculating scores: ">>, e.msg))
      [] stage = "save" ->
            Raised("ProfileSavingError", Wrap(<<"Error saving profile: ">>, e.msg))

\* the except clause of a stage's try block in process_user_test
StageError(stage, e) ==
    CASE stage = "fetch_data" ->
            Raised("PersonalityDataFetcherError", Wrap(<<"Error fetching data: ">>, e.msg))
      [] stage = "calculate_scores" ->
            Raised("ScoreCalculationError", Wrap(<<"Error calculating scores: ">>, e.msg))
      [] stage = "validate" ->
            Raised("ValidationError", Wrap(<<"Error validating scores: ">>, e.msg))
      [] stage = "save" ->
            Raised("ProfileSavingError", Wrap(<<"Error saving profile: ">>, e.msg))

\* the two outer except clauses of process_user_test
OuterHandler(user_id, e) ==
    IF e.kind \in ProfilerErrors THEN e
    ELSE Raised("PersonalityProfilerError",
                Wrap(<<"Unexpected error processing personality test for user ",
                       user_id, ": ">>, e.msg))

\* PersonalityDataFetcher.fetch_data's except clause
FetcherError(user_id, e) ==
    Raised("PersonalityDataFetcherError",
           Wrap(<<"Error fetching personality data for user ", user_id, ": ">>, e.msg))

\* ResponseRepository.get_user_responses' except clause
ResponseRepositoryError(user_id, e) ==
    Raised("RepositoryError",
           Wrap(<<"Error fetching responses for user ", user_id, ": ">>, e.msg))

\* save_profile's except clause, then PersonalityProfileSaver.save's
SaveProfileError(user_id, e) ==
    Raised("RepositoryError",
           Wrap(<<"Error saving profile for user ", user_id, ": ">>, e.msg))

SaverError(user_id, e) ==
    Raised("ProfileSavingError",
           Wrap(<<"Error saving personality profile for user ", user_id, ": ">>, e.msg))

\* save_profile, step 1: the RepositoryError for missing domain keys or, with
\* all domain keys there, for missing facet keys, as it leaves save_profile
\* through its except clause; otherwise nothing is raised
RequiredScores(user_id, scores) ==
    LET missing == MissingScores(scores)
    IN  IF missing = {} THEN NoError
        ELSE SaveProfileError(user_id,
                 Raised("RepositoryError",
                     Msg(<<IF \E k \in missing : Len(k) = 1
                           THEN "Missing required domain scores: "
                           ELSE "Missing required facet scores: ">>,
                         missing)))

InSaveProfile(t) == t.pc \in {"lookup", "idgen", "write", "written"}

\* a run that goes on to validate after the calculator raised
AfterRaiseContinue(stage) ==
    IF stage = "calculate_scores" THEN "validate" ELSE "failed"

\* where the run is once a stage's except clause has raised: the raise leaves
\* process_user_test
AfterRaise(stage) == "failed"

\* the exception e, raised inside `stage`, leaves process_user_test; the locals
\* go with the frame
Raise(t, stage, e) ==
    [IdleTask EXCEPT !.pc = AfterRaise(stage),
                     !.user_id = t.user_id,
                     !.error = OuterHandler(t.user_id, StageError(stage, e))]

\* the run of task p ends with the exception e raised inside `stage`
Failed(p, stage, e) ==
    /\ task' = [task EXCEPT ![p] = Raise(task[p], stage, e)]
    /\ hist' = [hist EXCEPT !.run[p].raised_in = stage, !.run[p].inner = e]

\* the same, for a stage invoked in this step
FailedCalling(p, stage, e) ==
    /\ task' = [task EXCEPT ![p] = Raise(task[p], stage, e)]
    /\ hist' = [hist EXCEPT !.run[p].calls = Append(@, stage),
                            !.run[p].raised_in = stage, !.run[p].inner = e]

\* process_user_test(user_id) is called and awaits data_fetcher.fetch_data
Start(p, u) ==
    /\ task[p].pc \in {"idle", "done", "failed"}
    /\ hist.started < MaxRuns
    /\ task' = [task EXCEPT ![p] = [IdleTask EXCEPT !.pc = "fetch", !.user_id = u]]
    /\ hist' = [hist EXCEPT !.started = @ + 1,
                            !.run[p] = [NoRun EXCEPT !.calls = <<"fetch_data">>]]
    /\ UNCHANGED <<settings, calc, unit, store, clock, nextId>>

\* PersonalityDataFetcher.fetch_data: what get_user_responses raised is wrapped;
\* no responses give [], responses are passed on
fetch_data(user_id, raw_responses) ==
    IF raw_responses.raised
    THEN FetcherError(user_id, raw_responses)
    ELSE IF raw_responses.value = <<>>
    THEN [raised |-> FALSE, value |-> <<>>]
    ELSE [raised |-> FALSE, value |-> raw_responses.value]

\* a step 1 that lets any list through
NoResponsesNever(responses) == FALSE

\* process_user_test, step 1: `if not responses`
NoResponses(responses) == responses = <<>>

\* Step 1: await fetch_data; the repository raises or returns the user's
\* responses; an empty list is turned into PersonalityDataFetcherError inside
\* the try block
Fetch(p) ==
    /\ task[p].pc = "fetch"
    /\ LET u == task[p].user_id
       IN  \E raw_responses \in
                 {ResponseRepositoryError(u, DbError)}
                     \cup {[raised |-> FALSE, value |-> r] : r \in ResponseChoices} :
              LET responses == fetch_data(u, raw_responses)
              IN  IF responses.raised
                  THEN Failed(p, "fetch_data", responses)
                  ELSE IF NoResponses(responses.value)
                  THEN Failed(p, "fetch_data",
                              Raised("PersonalityDataFetcherError",
                                     Msg(<<"No responses found for user: ", u>>, {})))
                  ELSE /\ task' = [task EXCEPT ![p].pc = "calculate",
                                               ![p].responses = responses.value]
                       /\ UNCHANGED hist
    /\ UNCHANGED <<settings, calc, unit, store, clock, nextId>>

\* Step 2: await score_calculator.calculate_scores(responses)
Calculate(p) ==
    /\ task[p].pc = "calculate"
    /\ \/ FailedCalling(p, "calculate_scores", CalcFault)
       \/ LET out == calculate_scores(PythonScoreCalculator(settings),
                                     task[p].responses)
          IN  IF out.raised
              THEN FailedCalling(p, "calculate_scores",
                                 Raised("ValueError", Msg(out.msg, {})))
              ELSE /\ task' = [task EXCEPT ![p].pc = "validate",
                                           ![p].scores_dict = out.value]
                   /\ hist' = [hist EXCEPT !.run[p].calls = Append(@, "calculate_scores")]
    /\ UNCHANGED <<settings, calc, unit, store, clock, nextId>>

\* Step 3: validator.validate(scores_dict)
Validate(p) ==
    /\ task[p].pc = "validate"
    /\ \E out \in validate(task[p].scores_dict) :
          IF out.raised
          THEN FailedCalling(p, "validate", out)
          ELSE /\ task' = [task EXCEPT ![p].pc = "save",
                                       ![p].validated_scores = out.value]
               /\ hist' = [hist EXCEPT !.run[p].calls = Append(@, "validate")]
    /\ UNCHANGED <<settings, calc, unit, store, clock, nextId>>

\* Step 4: saver.save builds the flat dict and calls save_profile, which checks
\* the keys and sends the lookup query
SaveCall(p) ==
    /\ task[p].pc = "save"
    /\ LET u == task[p].user_id
           profile_scores == ProfileScores(task[p].validated_scores)
           required == RequiredScores(u, profile_scores)
       IN  IF required.raised
           THEN FailedCalling(p, "save", SaverError(u, required))
           ELSE /\ task' = [task EXCEPT ![p].pc = "lookup",
                                        ![p].profile_scores = profile_scores]
                /\ hist' = [hist EXCEPT
                      !.run = [q \in Tasks |->
                          IF q = p
                          THEN [@[q] EXCEPT
                                  !.calls = Append(@, "save"),
                                  !.interleaved =
                                      \E o \in Tasks \ {p} :
                                          task[o].user_id = u /\ InSaveProfile(task[o])]
                          ELSE IF task[q].user_id = u /\ InSaveProfile(task[q])
                          THEN [@[q] EXCEPT !.interleaved = TRUE]
                          ELSE @[q]],
                      !.overlapped[u] =
                          @ \/ \E q \in Tasks \ {p} :
                                   task[q].user_id = u /\ InSaveProfile(task[q])]
    /\ UNCHANGED <<settings, calc, unit, store, clock, nextId>>

\* save_profile, steps 2-3: the lookup query comes back (or fails); an existing
\* row fixes the id to update, otherwise the id_generator query is sent
Lookup(p) ==
    /\ task[p].pc = "lookup"
    /\ LET u == task[p].user_id
       IN  \/ Failed(p, "save", SaverError(u, SaveProfileError(u, DbError)))
           \/ /\ ExistingProfileRows(store, u) = {}
              /\ task' = [task EXCEPT ![p].pc = "idgen", ![p].is_new_profile = TRUE]
              /\ UNCHANGED hist
           \/ \E r \in ExistingProfileRows(store, u) :
                 /\ task' = [task EXCEPT ![p].pc = "write",
                                         ![p].profile_id_to_use = r.PROFILE_ID]
                 /\ UNCHANGED hist
    /\ UNCHANGED <<settings, calc, unit, store, clock, nextId>>

\* an id taken from the first row without looking at it
GeneratedIdUnchecked(user_id, id_result_rows) ==
    [raised |-> FALSE,
     value |-> IF id_result_rows = <<>> \/ id_result_rows[1].GeneratedID = None
               THEN <<>>
               ELSE Strip(id_result_rows[1].GeneratedID[1])]

\* save_profile, step 3: the id the rows of the id_generator query give, or the
\* RepositoryError for no row, a NULL or a blank string
GeneratedId(user_id, id_result_rows) ==
    IF \/ id_result_rows = <<>>
       \/ id_result_rows[1].GeneratedID = None
       \/ Strip(id_result_rows[1].GeneratedID[1]) = <<>>
    THEN Raised("RepositoryError",
                Msg(<<"Failed to generate PROFILE_ID for user ", user_id,
                      " using id_generator">>, {}))
    ELSE [raised |-> FALSE, value |-> Strip(id_result_rows[1].GeneratedID[1])]

\* save_profile, step 3: the id_generator query comes back (or fails)
IdGen(p) ==
    /\ task[p].pc = "idgen"
    /\ LET u == task[p].user_id
       IN  \/ /\ Failed(p, "save", SaverError(u, SaveProfileError(u, DbError)))
              /\ UNCHANGED nextId
           \/ \E id_result_rows \in GeneratedRows(nextId) :
                 LET id == GeneratedId(u, id_result_rows)
                 IN  /\ nextId' = IF id_result_rows # <<>>
                                     /\ id_result_rows[1].GeneratedID # None
                                     /\ Strip(id_result_rows[1].GeneratedID[1])
                                            = IdString(nextId)
                                  THEN nextId + 1 ELSE nextId
                     /\ IF id.raised
                        THEN Failed(p, "save", SaverError(u, SaveProfileError(u, id)))
                        ELSE /\ task' = [task EXCEPT
                                   ![p].pc = "write",
                                   ![p].profile_id_to_use = id.value]
                             /\ UNCHANGED hist
    /\ UNCHANGED <<settings, calc, unit, store, clock>>

\* a statement that is kept although execute raises
ExecuteRaisesAfterCommit(rows, attempted) == attempted

\* MSSQLClient.execute when cursor.execute raises: commit() is not reached and
\* nothing of the statement is kept
ExecuteRaises(rows, attempted) == rows

\* save_profile, steps 4-5: the INSERT or UPDATE is executed and committed, or
\* raises
Write(p) ==
    /\ task[p].pc = "write"
    /\ LET u == task[p].user_id
           score_params == ScoreParams(task[p].profile_scores)
           id == task[p].profile_id_to_use
           committed == IF task[p].is_new_profile
                        THEN Insert(store, <<id, u>> \o score_params, clock, p)
                        ELSE Update(store, <<u>> \o score_params \o <<id>>, clock, p)
           e == SaverError(u, SaveProfileError(u, DbError))
       IN  \/ /\ store' = ExecuteRaises(store, committed)
              /\ task' = [task EXCEPT ![p] = Raise(task[p], "save", e)]
              /\ hist' = [hist EXCEPT !.run[p].raised_in = "save",
                                      !.run[p].inner = e,
                                      !.run[p].wrote = (store' # store)]
           \/ /\ store' = committed
              /\ task' = [task EXCEPT ![p].pc = "written"]
              /\ hist' = [hist EXCEPT
                    !.ops[u] = Append(@, IF task[p].is_new_profile
                                         THEN "INSERT" ELSE "UPDATE"),
                    !.run[p].wrote = TRUE]
    /\ UNCHANGED <<settings, calc, unit, clock, nextId>>

\* save_profile and save return the id; process_user_test returns the result
Return(p) ==
    /\ task[p].pc = "written"
    /\ task' = [task EXCEPT ![p].pc = "done",
                            ![p].result = [profile_id |-> task[p].profile_id_to_use,
                                           scores |-> task[p].validated_scores]]
    /\ hist' = [hist EXCEPT !.returned[task[p].user_id] =
                                @ \cup {task[p].profile_id_to_use}]
    /\ UNCHANGED <<settings, calc, unit, store, clock, nextId>>

\* time passes in the database
Tick ==
    /\ clock < MaxClock
    /\ clock' = clock + 1
    /\ UNCHANGED <<settings, calc, unit, store, nextId, task, hist>>

Init ==
    /\ settings \in {c \in SettingsChoices : ~PythonScoreCalculator(c).raised}
    /\ calc = NoCalc
    /\ unit = NoUnit
    /\ store = {}
    /\ clock = 0
    /\ nextId = 1
    /\ task = [p \in Tasks |-> IdleTask]
    /\ hist = InitHist

Next ==
    \/ \E p \in Tasks, u \in Users : Start(p, u)
    \/ \E p \in Tasks : Fetch(p)
    \/ \E p \in Tasks : Calculate(p)
    \/ \E p \in Tasks : Validate(p)
    \/ \E p \in Tasks : SaveCall(p)
    \/ \E p \in Tasks : Lookup(p)
    \/ \E p \in Tasks : IdGen(p)
    \/ \E p \in Tasks : Write(p)
    \/ \E p \in Tasks : Return(p)
    \/ Tick

Spec == Init /\ [][Next]_vars

\* a run that has been started goes on: each collaborator it awaits returns or
\* raises in the end
Step(p) ==
    \/ Fetch(p) \/ Calculate(p) \/ Validate(p) \/ SaveCall(p)
    \/ Lookup(p) \/ IdGen(p) \/ Write(p) \/ Return(p)

\* for the runs to be followed to their end: two runs in all, on either task
MaxLiveRuns == 2

NextLive ==
    \/ \E p \in Tasks, u \in Users : hist.started < MaxLiveRuns /\ Start(p, u)
    \/ \E p \in Tasks : Step(p)
    \/ Tick

SpecLive == Init /\ [][NextLive]_vars /\ \A p \in Tasks : WF_vars(Step(p))

-----------------------------------------------------------------------------
(* The same runs against a table in which user u1 has two profile rows, left
   by two INSERTs that raced: created in the same tick of GETDATE() or one
   tick apart *)

RacedRows(created) ==
    {Row(IdString(1), "u1", created, Bind([j \in 1..35 |-> 5000]), 0),
     Row(IdString(2), "u1", 0, Bind([j \in 1..35 |-> 5000]), 0)}

InitRows ==
    /\ settings \in {c \in SettingsChoices : ~PythonScoreCalculator(c).raised}
    /\ calc = NoCalc
    /\ unit = NoUnit
    /\ store \in {RacedRows(created) : created \in {-1, 0}}
    /\ clock = 0
    /\ nextId = 3
    /\ task = [p \in Tasks |-> IdleTask]
    /\ hist = InitHist

SpecRows == InitRows /\ [][Next]_vars

-----------------------------------------------------------------------------
(* The validator and the domain-means step on their own: one call each *)

\* a Python object handed to validate: a dict, or a ScoreResult instance
Object(type, value) == [type |-> type, value |-> value]

\* validator.validate(scores) for any object: `isinstance(scores, dict)` first
ValidatorCall(scores) ==
    IF scores.type # "dict"
    THEN {Raised("ValidationError",
                 Msg(<<"Scores must be a dictionary, got ", scores.type>>, {}))}
    ELSE validate(scores.value)

\* ScoreResult.model_dump(): the dict of the fields
model_dump(result) == Object("dict", result)

\* score maps handed to validate: 50.00 everywhere, except that some domain
\* keys or facet keys or the facets dict may be missing, "a", "o" and "n_f3" may
\* sit at or just outside the band, and a facet key "x_f1" and a top-level key
\* "x" may be added
DomainDrops == {{}, {"n"}, {"o", "n"}}
FacetDrops == {{}, {<<"e", "f", 1>>}, {<<"e", "f", 1>>, <<"n", "f", 6>>}}
BandValues == {999, 1000, 5025, 9000, 9001}
ExtraFacetValues == {None, <<5000>>, <<9500>>}

FacetsOf(dropF, f, extraF) ==
    [k \in (expected_facets \ dropF)
            \cup (IF extraF = None THEN {} ELSE {<<"x", "f", 1>>}) |->
        IF k = <<"n", "f", 3>> THEN f
        ELSE IF k = <<"x", "f", 1>> THEN extraF[1]
        ELSE 5000]

ScoreMap(dropD, a, o, hasFacets, dropF, f, extraF, extraTop) ==
    [k \in (required_domains \ dropD)
            \cup (IF hasFacets THEN {"facets"} ELSE {})
            \cup (IF extraTop THEN {"x"} ELSE {}) |->
        IF k = "facets" THEN FacetsOf(dropF, f, extraF)
        ELSE IF k = "a" THEN a
        ELSE IF k = "o" THEN o
        ELSE 5000]

ScoreMaps ==
    {ScoreMap(dropD, a, o, hasFacets, dropF, f, extraF, extraTop) :
        dropD \in DomainDrops, a \in BandValues, o \in {5000, 9001},
        hasFacets \in BOOLEAN, dropF \in FacetDrops, f \in BandValues,
        extraF \in ExtraFacetValues, extraTop \in BOOLEAN}

\* facet T-score maps handed to _calculate_domain_means: the 30 scores of the
\* calculator's tests, O_F1 possibly a hundredth higher, with some facet codes
\* dropped and possibly a code outside the 30 added
TestFacetTScores ==
    [d \in EXPECTED_DOMAINS |->
        CASE d = "O" -> <<5000, 6000, 7000, 4000, 5000, 5000>>
          [] d = "C" -> <<8000, 7000, 6000, 6000, 7000, 8000>>
          [] d = "E" -> <<3000, 4000, 5000, 5000, 4000, 3000>>
          [] d = "A" -> <<2000, 3000, 4000, 4000, 3000, 2000>>
          [] d = "N" -> <<9000, 8000, 7000, 7000, 8000, 9000>>]

TScoreDrops ==
    {{}, {FacetCode("O", 2)}, {FacetCode("O", 2), FacetCode("O", 3)},
     {FacetCode("O", 2), FacetCode("N", 1)},
     {FacetCode("N", i) : i \in 1..EXPECTED_FACETS_PER_DOMAIN},
     {FacetCode(d, 1) : d \in EXPECTED_DOMAINS},
     all_facet_codes}
TScoreExtras == {{}, {FacetCode("O", 7)}, {FacetCode("X", 1)}}

FacetTScoreMap(first, drop, extra) ==
    [code \in (all_facet_codes \ drop) \cup extra |->
        IF code = FacetCode("O", 1) THEN first
        ELSE IF code \in extra THEN 5000
        ELSE TestFacetTScores[code[1]][code[3]]]

FacetTScoreMaps ==
    {FacetTScoreMap(first, drop, extra) :
        first \in {5000, 5001}, drop \in TScoreDrops, extra \in TScoreExtras}

\* flat score dicts handed to save_profile: the 35 keys with some dropped
FlatDrops ==
    {{}, {<<"o">>}, {<<"o">>, <<"n">>}, {<<"o", "f", 1>>},
     {<<"o", "f", 1>>, <<"n", "f", 6>>}, {<<"n">>, <<"e", "f", 1>>},
     {<<d>> : d \in required_domains}, expected_facets}

FlatScores ==
    {[k \in ({<<d>> : d \in required_domains} \cup expected_facets) \ drop |->
        IF k = <<"o">> THEN v ELSE 5000] : drop \in FlatDrops, v \in {5000, 6550}}

InitUnit ==
    /\ settings = DefaultSettings
    /\ calc = NoCalc
    /\ unit \in {[pc |-> "new", fn |-> "validate", arg |-> Object("dict", m)] :
                    m \in ScoreMaps}
               \cup {[pc |-> "new", fn |-> "_calculate_domain_means", arg |-> t] :
                        t \in FacetTScoreMaps}
               \cup {[pc |-> "new", fn |-> "save_profile", arg |-> scores,
                       user_id |-> u] : scores \in FlatScores, u \in Users}
    /\ store = {}
    /\ clock = 0
    /\ nextId = 1
    /\ task = [p \in Tasks |-> IdleTask]
    /\ hist = InitHist

\* validator.validate(scores)
ValidateOnce ==
    /\ unit.pc = "new"
    /\ unit.fn = "validate"
    /\ \E out \in ValidatorCall(unit.arg) :
          unit' = [pc |-> IF out.raised THEN "raised" ELSE "returned",
                   fn |-> unit.fn, arg |-> unit.arg, out |-> out]
    /\ UNCHANGED <<settings, calc, store, clock, nextId, task, hist>>

\* the returned ScoreResult, or its model_dump(), handed to validate again
ValidateAgain ==
    /\ unit.pc = "returned"
    /\ unit.fn = "validate"
    /\ \E again_arg \in {Object("ScoreResult", unit.out.value),
                         model_dump(unit.out.value)} :
          \E again \in ValidatorCall(again_arg) :
              unit' = [pc |-> "again", fn |-> unit.fn, arg |-> unit.arg,
                       out |-> unit.out, again_arg |-> again_arg, again |-> again]
    /\ UNCHANGED <<settings, calc, store, clock, nextId, task, hist>>

\* calculator._calculate_domain_means(facet_t_scores): the loop runs over a
\* set, so the domain it meets first among those short of facets is any of them
DomainMeans ==
    /\ unit.pc = "new"
    /\ unit.fn = "_calculate_domain_means"
    /\ LET domain_t_scores == _calculate_domain_means(unit.arg)
       IN  IF domain_t_scores.raised
           THEN \E domain \in domain_t_scores.domains :
                  unit' = [pc |-> "raised", fn |-> unit.fn, arg |-> unit.arg,
                           out |-> Raised("ValueError",
                               Msg(<<"Domain ", domain, " has ",
                                     domain_t_scores.found[domain],
                                     " facets with scores, expected 6">>,
                                   {domain}))]
           ELSE unit' = [pc |-> "returned", fn |-> unit.fn, arg |-> unit.arg,
                         out |-> domain_t_scores]
    /\ UNCHANGED <<settings, calc, store, clock, nextId, task, hist>>

\* repository.save_profile(user_id, scores) with a db_client that records what
\* it is sent, up to the first await: the check of the keys raises, or the
\* lookup query is sent
SaveProfile ==
    /\ unit.pc = "new"
    /\ unit.fn = "save_profile"
    /\ LET required == RequiredScores(unit.user_id, unit.arg)
       IN  IF required.raised
           THEN unit' = [pc |-> "raised", fn |-> unit.fn, arg |-> unit.arg,
                         user_id |-> unit.user_id, out |-> required,
                         awaited |-> <<>>]
           ELSE unit' = [pc |-> "awaiting", fn |-> unit.fn, arg |-> unit.arg,
                         user_id |-> unit.user_id, out |-> required,
                         awaited |-> <<"existing_profile_query">>]
    /\ UNCHANGED <<settings, calc, store, clock, nextId, task, hist>>

NextUnit == ValidateOnce \/ ValidateAgain \/ DomainMeans \/ SaveProfile

SpecUnit == InitUnit /\ [][NextUnit]_vars

-----------------------------------------------------------------------------
(* Claims about process_user_test and save_profile, under Spec *)

IsPrefix(s, t) == Len(s) <= Len(t) /\ s = SubSeq(t, 1, Len(s))

Inserts(ops) == Cardinality({i \in 1..Len(ops) : ops[i] = "INSERT"})

ProfileIds(rows) == {r.PROFILE_ID : r \in rows}

\* C1: for a user whose save_profile calls never overlapped, starting with no
\* profile: the first statement is an INSERT and every later one an UPDATE, the
\* store holds exactly one row for the user once a statement has run, and
\* every id returned is the id of that row, so all calls return the same id.
C1_SequentialSavesOneRow ==
    \A u \in Users :
        ~hist.overlapped[u] =>
            /\ \A i \in 1..Len(hist.ops[u]) :
                  hist.ops[u][i] = IF i = 1 THEN "INSERT" ELSE "UPDATE"
            /\ Cardinality(RowsOf(store, u)) = IF hist.ops[u] = <<>> THEN 0 ELSE 1
            /\ hist.returned[u] \subseteq ProfileIds(RowsOf(store, u))
            /\ Cardinality(hist.returned[u]) <= 1

\* three calls in a row for one user, all returned
C1_Witness ==
    \E u \in Users :
        /\ ~hist.overlapped[u]
        /\ hist.ops[u] = <<"INSERT", "UPDATE", "UPDATE">>
        /\ Cardinality(hist.returned[u]) = 1
        /\ \A p \in Tasks : task[p].pc \in {"idle", "done"}

\* C2: every INSERT executed for a user adds a row for that user, whatever the
\* store holds; so when two runs for one user have both found no profile and
\* both executed their INSERT, the store holds two rows for the user, one under
\* each generated id.
C2_BothInsert ==
    /\ \A u \in Users : Cardinality(RowsOf(store, u)) = Inserts(hist.ops[u])
    /\ \A p, q \in Tasks :
          (/\ p # q
           /\ task[p].user_id = task[q].user_id
           /\ task[p].is_new_profile /\ task[q].is_new_profile
           /\ task[p].pc \in {"written", "done"}
           /\ task[q].pc \in {"written", "done"})
          => /\ task[p].profile_id_to_use # task[q].profile_id_to_use
             /\ {task[p].profile_id_to_use, task[q].profile_id_to_use}
                    \subseteq ProfileIds(RowsOf(store, task[p].user_id))

\* two interleaved runs for one user, both inserted: two rows for the user
C2_Witness ==
    \E u \in Users :
        /\ \A p \in Tasks : /\ task[p].user_id = u
                            /\ task[p].is_new_profile
                            /\ task[p].pc \in {"written", "done"}
        /\ hist.overlapped[u]
        /\ hist.started = 2
        /\ Cardinality(RowsOf(store, u)) = 2

\* C3: the collaborators called in a run are an initial part of fetch_data,
\* calculate_scores, validate, save (so each is called at most once and only
\* after the earlier ones returned); a stage that raised is the last one
\* called and the run has ended; a run that ended well called all four.
C3_StageOrder ==
    \A p \in Tasks :
        LET r == hist.run[p]
        IN  /\ IsPrefix(r.calls, Stages)
            /\ r.raised_in # "" =>
                  /\ task[p].pc = "failed"
                  /\ r.calls # <<>>
                  /\ r.calls[Len(r.calls)] = r.raised_in
            /\ task[p].pc = "failed" => r.raised_in # ""
            /\ task[p].pc = "done" => r.calls = Stages

\* one run went through all four stages, another stopped at validate
C3_Witness ==
    \E p, q \in Tasks :
        /\ task[p].pc = "done"
        /\ hist.run[p].calls = Stages
        /\ task[q].pc = "failed"
        /\ hist.run[q].raised_in = "validate"
        /\ hist.run[q].calls = <<"fetch_data", "calculate_scores", "validate">>

KindOfStage(stage) ==
    CASE stage = "fetch_data" -> "PersonalityDataFetcherError"
      [] stage = "calculate_scores" -> "ScoreCalculationError"
      [] stage = "validate" -> "ValidationError"
      [] stage = "save" -> "ProfileSavingError"
      [] OTHER -> "none"

\* the message `outer` holds the message `inner` as a contiguous part
ContainsMessage(outer, inner) ==
    /\ inner.names \subseteq outer.names
    /\ \E i \in 0..(Len(outer.texts) - Len(inner.texts)) :
          SubSeq(outer.texts, i + 1, i + Len(inner.texts)) = inner.texts

\* C4: the error a failed run raises to its caller has the kind of the stage
\* that raised, and its message contains the message of the exception raised
\* inside that stage.
C4_ErrorKindAndMessage ==
    \A p \in Tasks :
        task[p].pc = "failed" =>
            /\ task[p].error.raised
            /\ task[p].error.kind = KindOfStage(hist.run[p].raised_in)
            /\ hist.run[p].inner.msg.texts # <<>>
            /\ ContainsMessage(task[p].error.msg, hist.run[p].inner.msg)

\* one run failed in validate on an out-of-band score, another in save
C4_Witness ==
    \E p, q \in Tasks :
        /\ task[p].pc = "failed"
        /\ hist.run[p].raised_in = "validate"
        /\ hist.run[p].inner.msg.names # {}
        /\ task[p].error.kind = "ValidationError"
        /\ task[q].pc = "failed"
        /\ hist.run[q].raised_in = "save"
        /\ task[q].error.kind = "ProfileSavingError"

\* C5: the step at which a run fails leaves the profile rows as they are, and
\* no earlier step of that run has changed them.
C5_FailureWritesNothing ==
    [][\A p \in Tasks :
          (task[p].pc # "failed" /\ task'[p].pc = "failed")
          => /\ store' = store
             /\ ~hist.run[p].wrote
             /\ ~hist'.run[p].wrote]_vars

\* the only run so far got its identity and failed at the INSERT: no row
C5_Witness ==
    \E p \in Tasks :
        /\ hist.started = 1
        /\ nextId = 2
        /\ task[p].pc = "failed"
        /\ hist.run[p].raised_in = "save"
        /\ store = {}

\* the j-th of the 35 scores of a result: the five domains, then the facets
ResultValue(scores, j) ==
    IF j <= 5 THEN scores[ocean[j]]
    ELSE scores["facets"][<<ocean[((j - 6) \div 6) + 1], "f", ((j - 6) % 6) + 1>>]

NoIdIn(id_result_rows) ==
    \/ id_result_rows = <<>>
    \/ id_result_rows[1].GeneratedID = None
    \/ \A i \in 1..Len(id_result_rows[1].GeneratedID[1]) :
          id_result_rows[1].GeneratedID[1][i] = " "

HasText(m, text) == \E i \in 1..Len(m.texts) : m.texts[i] = text

\* C16: when no profile was found and the id_generator query gives no row, a
\* NULL or an empty or blank string, save_profile raises RepositoryError; a
\* run that leaves identity generation either goes on to its write with a
\* non-blank id or fails, and the failure executes no statement: the rows and
\* the statements executed so far are as before.
C16_NoIdNoWrite ==
    [][\A p \in Tasks :
          (task[p].pc = "idgen" /\ task'[p].pc # "idgen") =>
              /\ task[p].is_new_profile
              /\ \A rows \in GeneratedRows(nextId) :
                    NoIdIn(rows) <=>
                        /\ GeneratedId(task[p].user_id, rows).raised
                        /\ GeneratedId(task[p].user_id, rows).kind = "RepositoryError"
              /\ store' = store
              /\ hist'.ops = hist.ops
              /\ \/ /\ task'[p].pc = "write"
                    /\ task'[p].profile_id_to_use # <<>>
                    /\ \A i \in 1..Len(task'[p].profile_id_to_use) :
                          task'[p].profile_id_to_use[i] # " "
                 \/ /\ task'[p].pc = "failed"
                    /\ ~hist'.run[p].wrote
                    /\ task'[p].error.kind = "ProfileSavingError"
                    /\ HasText(task'[p].error.msg, "Error saving profile for user ")]_vars

\* a run failed because no id was generated; the table is still empty
C16_Witness ==
    \E p \in Tasks :
        /\ task[p].pc = "failed"
        /\ hist.run[p].raised_in = "save"
        /\ HasText(task[p].error.msg, "Failed to generate PROFILE_ID for user ")
        /\ store = {}
        /\ hist.ops[task[p].user_id] = <<>>

\* the row holds the 35 scores of a validated result, column by column
HoldsScores(r, scores) ==
    \A j \in 1..35 : r.cols[ScoreColumns[j]] = ResultValue(scores, j)

\* C17: a save_profile call that succeeds executes exactly one statement.  A
\* lookup that finds a profile leads to the write without the id_generator
\* being called, and the write is an UPDATE under the id found: no row is
\* added, no profile_id changes, no other row changes.  A lookup that finds
\* none leads to an INSERT of one new row with the generated id, the user_id
\* and the 35 scores.  The id written under is the id returned, and no other
\* step of the call changes the rows.
C17_OneStatementPerSave ==
    [][/\ store' # store =>
             \E p \in Tasks : task[p].pc = "write" /\ task'[p].pc = "written"
       /\ \A p \in Tasks :
             LET u == task[p].user_id
                 id == task[p].profile_id_to_use
             IN  /\ (task[p].pc = "lookup" /\ task'[p].pc = "write") =>
                       /\ ~task'[p].is_new_profile
                       /\ nextId' = nextId
                       /\ task'[p].profile_id_to_use
                              \in ProfileIds(RowsOf(store, u))
                 /\ (task[p].pc = "lookup" /\ task'[p].pc = "idgen") =>
                       /\ task'[p].is_new_profile
                       /\ RowsOf(store, u) = {}
                 /\ (task[p].pc = "write" /\ task'[p].pc = "written") =>
                       /\ Len(hist'.ops[u]) = Len(hist.ops[u]) + 1
                       /\ \E r \in store' :
                             /\ r.PROFILE_ID = id
                             /\ r.USER_ID = u
                             /\ HoldsScores(r, task[p].validated_scores)
                       /\ \A r \in store' : r.PROFILE_ID # id => r \in store
                       /\ IF task[p].is_new_profile
                          THEN /\ hist'.ops[u][Len(hist'.ops[u])] = "INSERT"
                               /\ id \notin ProfileIds(store)
                               /\ store \subseteq store'
                               /\ Cardinality(store') = Cardinality(store) + 1
                          ELSE /\ hist'.ops[u][Len(hist'.ops[u])] = "UPDATE"
                               /\ Cardinality(store') = Cardinality(store)
                               /\ ProfileIds(store') = ProfileIds(store)
                 /\ (task[p].pc = "written" /\ task'[p].pc # "written") =>
                       /\ task'[p].pc = "done"
                       /\ task'[p].result.profile_id = id]_vars

\* an INSERT by one run, then an UPDATE of that row by a run that returned its id
C17_Witness ==
    \E p \in Tasks :
        /\ task[p].pc = "done"
        /\ ~task[p].is_new_profile
        /\ hist.ops[task[p].user_id] = <<"INSERT", "UPDATE">>
        /\ ProfileIds(RowsOf(store, task[p].user_id)) = {task[p].result.profile_id}
        /\ nextId = 2

\* C18: with no responses for the user fetch_data returns an empty list and
\* does not raise; process_user_test turns the empty list into a
\* PersonalityDataFetcherError with fetch_data the only collaborator called,
\* so no run gets past step 1 without responses and no row of 35 default
\* scores (50.00) is written (every answer list of this model moves a score
\* away from 50.00).
C18_NoResponsesIsFetchFailure ==
    /\ \A u \in Users :
          fetch_data(u, [raised |-> FALSE, value |-> <<>>])
              = [raised |-> FALSE, value |-> <<>>]
    /\ \A p \in Tasks :
          /\ task[p].pc \notin {"idle", "fetch", "failed"} => task[p].responses # <<>>
          /\ (task[p].pc = "failed"
                /\ HasText(task[p].error.msg, "No responses found for user: ")) =>
                /\ task[p].error.kind = "PersonalityDataFetcherError"
                /\ hist.run[p].raised_in = "fetch_data"
                /\ hist.run[p].calls = <<"fetch_data">>
                /\ ~hist.run[p].wrote
    /\ \A r \in store : \E j \in 1..35 : r.cols[ScoreColumns[j]] # 5000

\* the only run so far found no responses and failed; nothing was written
C18_Witness ==
    \E p \in Tasks :
        /\ hist.started = 1
        /\ task[p].pc = "failed"
        /\ HasText(task[p].error.msg, "No responses found for user: ")
        /\ hist.run[p].calls = <<"fetch_data">>
        /\ store = {}

\* C25: two save_profile calls for one user that ran interleaved and both
\* found the user's profile add no row: once both have returned, the user has
\* the one row, both calls returned its id, and the row holds, column by
\* column, the 35 scores of the call whose UPDATE ran last.
C25_InterleavedUpdates ==
    \A p, q \in Tasks :
        (/\ p # q
         /\ task[p].user_id = task[q].user_id
         /\ task[p].pc = "done" /\ task[q].pc = "done"
         /\ ~task[p].is_new_profile /\ ~task[q].is_new_profile
         /\ hist.run[p].interleaved /\ hist.run[q].interleaved
         /\ Inserts(hist.ops[task[p].user_id]) = 1) =>
            LET u == task[p].user_id
            IN  /\ Cardinality({r \in store : r.USER_ID = u}) = 1
                /\ \A r \in store : r.USER_ID = u =>
                      /\ task[p].result.profile_id = r.PROFILE_ID
                      /\ task[q].result.profile_id = r.PROFILE_ID
                      /\ r.by \in {p, q}
                      /\ \A j \in 1..35 :
                            r.cols[ScoreColumns[j]]
                                = ResultValue(task[r.by].result.scores, j)
                /\ hist.ops[u][Len(hist.ops[u]) - 1] = "UPDATE"
                /\ hist.ops[u][Len(hist.ops[u])] = "UPDATE"

\* two interleaved calls with different scores both updated the one row, which
\* holds the scores of one of them and not of the other
C25_Witness ==
    \E p, q \in Tasks :
        /\ p # q
        /\ task[p].user_id = task[q].user_id
        /\ task[p].pc = "done" /\ task[q].pc = "done"
        /\ ~task[p].is_new_profile /\ ~task[q].is_new_profile
        /\ hist.run[p].interleaved /\ hist.run[q].interleaved
        /\ hist.ops[task[p].user_id] = <<"INSERT", "UPDATE", "UPDATE">>
        /\ task[p].result.scores # task[q].result.scores
        /\ \E r \in store :
              /\ r.by = p
              /\ \A j \in 1..35 :
                    r.cols[ScoreColumns[j]] = ResultValue(task[p].result.scores, j)
              /\ \E j \in 1..35 :
                    r.cols[ScoreColumns[j]] # ResultValue(task[q].result.scores, j)

\* C26: runs for different users leave each other's rows alone.  The step in
\* which a run for user u writes adds or changes rows of u only: the rows of
\* every other user are the same before and after, none is added, changed or
\* given to u.  A user none of whose runs has written has no row, and a user
\* whose own saves did not overlap each other has exactly one row once a
\* statement has run, whatever the runs of other users did in between.
C26_UsersApart ==
    [][/\ \A p \in Tasks :
             (task[p].pc = "write" /\ task'[p].pc = "written") =>
                /\ {r \in store' : r.USER_ID # task[p].user_id}
                      = {r \in store : r.USER_ID # task[p].user_id}
                /\ \A r \in store' \ store : r.by = p
                /\ \A r \in store :
                      r.USER_ID = task[p].user_id =>
                         \E w \in store' : /\ w.PROFILE_ID = r.PROFILE_ID
                                           /\ w.USER_ID = r.USER_ID
       /\ \A u \in Users :
             /\ hist'.ops[u] = <<>> => {r \in store' : r.USER_ID = u} = {}
             /\ (~hist'.overlapped[u] /\ hist'.ops[u] # <<>>) =>
                   Cardinality({r \in store' : r.USER_ID = u}) = 1
       /\ \A r, w \in store' : r.PROFILE_ID = w.PROFILE_ID => r = w
      ]_vars

\* a run for u1 drew its id first and wrote last, a run for u2 drew its id and
\* wrote in between: each user has one row of their own
C26_Witness ==
    /\ hist.started = 2
    /\ \A p \in Tasks : task[p].pc = "done"
    /\ hist.ops["u1"] = <<"INSERT">> /\ hist.ops["u2"] = <<"INSERT">>
    /\ \E a, b \in store :
          /\ a.USER_ID = "u1" /\ a.PROFILE_ID = <<"PRO", "1">>
          /\ b.USER_ID = "u2" /\ b.PROFILE_ID = <<"PRO", "2">>
          /\ b.CREATED < a.CREATED
    /\ Cardinality(store) = 2

-----------------------------------------------------------------------------
(* Claims about the calculator, under SpecCalc *)

CalcDone == calc.pc \in {"returned", "raised"}

ApiFacetKeys == {<<d, "f", i>> : d \in API_DOMAINS, i \in 1..6}

\* what the spec says of one answered item
ItemAdjusted(r) == IF r.reverse_scored THEN 6 - r.point[1] ELSE r.point[1]
ItemSurvives(r) ==
    /\ r.point # None
    /\ ItemAdjusted(r) >= 1
    /\ ItemAdjusted(r) <= 5
    /\ r.facet_code # <<>>

\* t is x = n/d (d > 0) rounded half-up: nearest, a tie away from zero
IsHalfUpOf(t, n, d) ==
    /\ 2 * Abs(n - t * d) <= d
    /\ (2 * Abs(n - t * d) = d => Abs(t * d) > Abs(n))

\* C7: calculate_scores never raises and always returns exactly the 5 domain
\* keys o,c,e,a,n plus a facets map with exactly the 30 keys {o,c,e,a,n}_f{1..6},
\* whatever the list of answered items.
C7_ExactKeys ==
    CalcDone =>
        /\ calc.pc = "returned"
        /\ DOMAIN calc.out.value = API_DOMAINS \cup {"facets"}
        /\ DOMAIN calc.out.value["facets"] = ApiFacetKeys
        /\ Cardinality(DOMAIN calc.out.value["facets"]) = 30

\* a call that returned for a list mixing a surviving and a discarded item
C7_Witness ==
    /\ calc.pc = "returned"
    /\ \E i, j \in 1..Len(calc.responses) :
          /\ ItemSurvives(calc.responses[i])
          /\ ~ItemSurvives(calc.responses[j])
    /\ Cardinality(DOMAIN calc.out.value["facets"]) = 30

\* C8: the T-score of a facet with at least one surviving adjusted value is
\* 50 + 10 * (mean - population_mean) / population_std_dev rounded half-up to
\* hundredths; with the default settings a mean of 4, 2, 5, 1 (z = 2, -2, 4, -4)
\* gives exactly 70.00, 30.00, 90.00, 10.00.
C8_FacetTScore ==
    calc.pc = "returned" =>
        \A code \in (DOMAIN calc.out.facet_adjusted_scores) \cap all_facet_codes :
            LET vals == calc.out.facet_adjusted_scores[code]
                n == Len(vals)
                sum == SumSeq(vals)
                M == settings.PERSONALITY_MEAN
                S == settings.PERSONALITY_STD_DEV
                t == calc.out.value["facets"][LowerCode(code)]
                sg == IF S < 0 THEN -1 ELSE 1
            IN  /\ n >= 1
                /\ IsHalfUpOf(t, sg * (5000 * n * S + 1000 * (100 * sum - M * n)),
                              sg * n * S)
                /\ settings = DefaultSettings =>
                      /\ (sum = 4 * n => t = 7000)
                      /\ (sum = 2 * n => t = 3000)
                      /\ (sum = 5 * n => t = 9000)
                      /\ (sum = 1 * n => t = 1000)

\* deviation 0.32, O_F1 answered 3 and 4: T = 65.625, a tie, rounded up to 65.63
C8_Witness ==
    /\ calc.pc = "returned"
    /\ settings.PERSONALITY_STD_DEV = 32
    /\ FacetCode("O", 1) \in DOMAIN calc.out.facet_adjusted_scores
    /\ SumSeq(calc.out.facet_adjusted_scores[FacetCode("O", 1)]) = 7
    /\ Len(calc.out.facet_adjusted_scores[FacetCode("O", 1)]) = 2
    /\ calc.out.value["facets"][<<"o", "f", 1>>] = 6563

\* C9: each domain score is the mean of the domain's six rounded facet T-scores,
\* rounded half-up to hundredths.
C9_DomainMean ==
    calc.pc = "returned" =>
        \A d \in EXPECTED_DOMAINS :
            LET f == calc.out.value["facets"]
                k == Lower(d)
                sum == f[<<k, "f", 1>>] + f[<<k, "f", 2>>] + f[<<k, "f", 3>>]
                       + f[<<k, "f", 4>>] + f[<<k, "f", 5>>] + f[<<k, "f", 6>>]
            IN  IsHalfUpOf(calc.out.value[k], sum, 6)

\* facets 65.63 (rounded up from 65.625) and five 50.00: their mean 52.605 is
\* rounded to 52.61, where the unrounded facet values would give 52.60
C9_Witness ==
    /\ calc.pc = "returned"
    /\ calc.out.value["facets"][<<"o", "f", 1>>] = 6563
    /\ \A i \in 2..6 : calc.out.value["facets"][<<"o", "f", i>>] = 5000
    /\ calc.out.value["o"] = 5261

RECURSIVE AdjustedOf(_, _)
AdjustedOf(responses, code) ==
    IF responses = <<>> THEN <<>>
    ELSE LET r == Head(responses)
             rest == AdjustedOf(Tail(responses), code)
         IN  IF ItemSurvives(r) /\ r.facet_code = code
             THEN <<ItemAdjusted(r)>> \o rest
             ELSE rest

\* C10: the group of a facet code holds, in order, 6 - p for each surviving
\* reverse-scored item of that code and p for each surviving normal item of that
\* code; every surviving item has put exactly one value into exactly one group.
C10_GroupAndAdjust ==
    calc.pc = "returned" =>
        LET groups == calc.out.facet_adjusted_scores
            surviving == {i \in 1..Len(calc.responses) : ItemSurvives(calc.responses[i])}
        IN  /\ DOMAIN groups = {calc.responses[i].facet_code : i \in surviving}
            /\ \A code \in DOMAIN groups :
                  groups[code] = AdjustedOf(calc.responses, code)
            /\ SumOver([code \in DOMAIN groups |-> Len(groups[code])], DOMAIN groups)
                  = Cardinality(surviving)

\* O_F1 answered 4 (normal) and 1 (reverse-scored): the group is <<4, 5>>
C10_Witness ==
    /\ calc.pc = "returned"
    /\ Len(calc.responses) >= 2
    /\ calc.responses[1] = Item(FacetCode("O", 1), <<4>>, FALSE)
    /\ calc.responses[2] = Item(FacetCode("O", 1), <<1>>, TRUE)
    /\ FacetCode("O", 1) \in DOMAIN calc.out.facet_adjusted_scores
    /\ SubSeq(calc.out.facet_adjusted_scores[FacetCode("O", 1)], 1, 2) = <<4, 5>>

\* the answered items include one that survives step 1 under this facet code
HasSurvivor(responses, code) ==
    \E i \in 1..Len(responses) :
        ItemSurvives(responses[i]) /\ responses[i].facet_code = code

\* C11: a facet code with no surviving item has the configured population mean
\* as raw score and a T-score of exactly 50.00, for every configured mean and
\* non-zero deviation; a domain none of whose facets has a surviving item has
\* six facet scores and a domain score of 50.00, and the call returns.
C11_EmptyFacetIsFifty ==
    CalcDone =>
        /\ calc.pc = "returned"
        /\ \A code \in all_facet_codes :
              ~HasSurvivor(calc.responses, code) =>
                  /\ _calculate_facet_means(calc.self,
                         calc.out.facet_adjusted_scores)[code]
                        = DecimalOfSetting(settings.PERSONALITY_MEAN)
                  /\ calc.out.value["facets"][LowerCode(code)] = 5000
        /\ \A d \in EXPECTED_DOMAINS :
              (\A i \in 1..6 : ~HasSurvivor(calc.responses, FacetCode(d, i))) =>
                  calc.out.value[Lower(d)] = 5000

\* mean 2.75: O_F1 is answered, the rest of O and the whole of N are not
C11_Witness ==
    /\ calc.pc = "returned"
    /\ settings.PERSONALITY_MEAN = 275
    /\ HasSurvivor(calc.responses, FacetCode("O", 1))
    /\ ~HasSurvivor(calc.responses, FacetCode("N", 6))
    /\ calc.out.value["facets"][<<"o", "f", 1>>] # 5000
    /\ calc.out.value["facets"][<<"o", "f", 2>>] = 5000
    /\ calc.out.value["n"] = 5000

\* C19: an answered item whose adjusted value is outside 1..5, whose point is
\* absent or that has no facet code is dropped in step 1: the call returns,
\* and its groups and its 35 scores are those of the list without the dropped
\* items, the other items being processed as before.
C19_DroppedItems ==
    CalcDone =>
        LET kept == SelectSeq(calc.responses, ItemSurvives)
        IN  /\ calc.pc = "returned"
            /\ calc.out.facet_adjusted_scores = _group_and_adjust_scores(kept)
            /\ calc.out.value = calculate_scores(calc.self, kept).value
            /\ \A code \in DOMAIN calc.out.facet_adjusted_scores :
                  Len(calc.out.facet_adjusted_scores[code])
                      = Cardinality({i \in 1..Len(kept) : kept[i].facet_code = code})

\* point 0, point 6 reverse-scored and an item without a facet code were
\* dropped: every score is 50.00
C19_Witness ==
    /\ calc.pc = "returned"
    /\ Len(calc.responses) = 3
    /\ \E i, j, k \in 1..3 :
          /\ calc.responses[i].point = <<0>>
          /\ calc.responses[j].point = <<6>> /\ calc.responses[j].reverse_scored
          /\ calc.responses[k].facet_code = <<>>
    /\ DOMAIN calc.out.facet_adjusted_scores = {}
    /\ \A key \in ApiFacetKeys : calc.out.value["facets"][key] = 5000

\* C22: construction with a standard deviation of zero raises, and no
\* calculator instance has a deviation of zero: the z-score step never divides
\* by zero.
C22_NoZeroDeviation ==
    /\ (settings.PERSONALITY_STD_DEV = 0 /\ calc.pc # "new") =>
          /\ calc.pc = "init_raised"
          /\ "self" \notin DOMAIN calc
          /\ calc.error = <<"Personality standard deviation cannot be zero.">>
    /\ "self" \in DOMAIN calc =>
          /\ settings.PERSONALITY_STD_DEV # 0
          /\ calc.self.personality_std_dev.num # 0
          /\ calc.self.personality_std_dev.den > 0
    /\ calc.pc \in {"ready", "returned", "raised"} => "self" \in DOMAIN calc

\* construction with deviation 0 has raised; with another deviation there is
\* an instance
C22_Witness ==
    /\ settings.PERSONALITY_STD_DEV = 0
    /\ calc.pc = "init_raised"
    /\ "self" \notin DOMAIN calc

\* C27: with the default configuration (mean 3.0, deviation 0.5) every call of
\* calculate_scores returns, its 30 facet scores and 5 domain scores lie in
\* [10.00, 90.00], and validate accepts the output.
C27_DefaultWithinBand ==
    (settings = [PERSONALITY_MEAN |-> 300, PERSONALITY_STD_DEV |-> 50]
        /\ calc.pc \in {"returned", "raised"}) =>
        /\ calc.pc = "returned"
        /\ \A d \in {"o", "c", "e", "a", "n"} :
              calc.out.value[d] >= 1000 /\ calc.out.value[d] <= 9000
        /\ DOMAIN calc.out.value["facets"] = ApiFacetKeys
        /\ \A k \in ApiFacetKeys :
              /\ calc.out.value["facets"][k] >= 1000
              /\ calc.out.value["facets"][k] <= 9000
        /\ \A r \in validate(calc.out.value) :
              ~r.raised /\ r.value = calc.out.value

\* under the default configuration a facet answered with adjusted value 5 is
\* at 90.00 and one answered with 1 is at 10.00
C27_Witness ==
    /\ settings = [PERSONALITY_MEAN |-> 300, PERSONALITY_STD_DEV |-> 50]
    /\ calc.pc = "returned"
    /\ calc.out.value["facets"][<<"o", "f", 1>>] = 9000
    /\ calc.out.value["facets"][<<"n", "f", 6>>] = 1000

\* the list s in the order given by the permutation f of its positions
Reordered(s, f) == [i \in 1..Len(s) |-> s[f[i]]]

\* C28: calculate_scores gives the same 35 scores for every reordering of the
\* item list, and the score of each of the 30 facets is the score computed
\* from the items that carry that facet's code alone.
C28_OrderIndependent ==
    CalcDone =>
        /\ calc.pc = "returned"
        /\ \A f \in Permutations(1..Len(calc.responses)) :
              LET again == calculate_scores(calc.self, Reordered(calc.responses, f))
              IN  ~again.raised /\ again.value = calc.out.value
        /\ \A d \in {"O", "C", "E", "A", "N"}, i \in 1..6 :
              LET own == SelectSeq(calc.responses,
                                   LAMBDA r : r.facet_code = <<d, "F", i>>)
                  alone == calculate_scores(calc.self, own)
              IN  alone.value["facets"][<<Lower(d), "f", i>>]
                      = calc.out.value["facets"][<<Lower(d), "f", i>>]

\* a list with two different answers to O_F1 and an answer to N_F6
C28_Witness ==
    /\ calc.pc = "returned"
    /\ Len(calc.responses) = 3
    /\ calc.responses[1] = [facet_code |-> <<"O", "F", 1>>, point |-> <<4>>,
                            reverse_scored |-> FALSE]
    /\ calc.responses[2] = [facet_code |-> <<"N", "F", 6>>, point |-> <<2>>,
                            reverse_scored |-> TRUE]
    /\ calc.responses[3] = [facet_code |-> <<"O", "F", 1>>, point |-> <<3>>,
                            reverse_scored |-> FALSE]
    /\ calc.out.value["facets"][<<"o", "f", 1>>]
          # calc.out.value["facets"][<<"o", "f", 2>>]

\* one of the 30 codes {O,C,E,A,N}_F{1..6}, in upper case
IsFixedCode(code) ==
    \E d \in {"O", "C", "E", "A", "N"}, i \in 1..6 : code = <<d, "F", i>>

\* C29: an item whose facet code is not one of the 30 fixed codes (O_F7, X_F1,
\* lower-case o_f1) has no effect: the call returns, the output has the 5
\* domain keys and the 30 facet keys and nothing else, and its 35 values equal
\* those computed from the list without such items.
C29_ForeignCodesIgnored ==
    CalcDone =>
        LET fixed == SelectSeq(calc.responses, LAMBDA r : IsFixedCode(r.facet_code))
            without == calculate_scores(calc.self, fixed)
        IN  /\ calc.pc = "returned"
            /\ DOMAIN calc.out.value = {"o", "c", "e", "a", "n", "facets"}
            /\ DOMAIN calc.out.value["facets"] = ApiFacetKeys
            /\ ~without.raised
            /\ calc.out.value = without.value
            /\ calc.out.facet_t_scores = without.facet_t_scores

\* answers of 5 under o_f1, O_F7 and X_F1: o_f1 and every other score are at
\* 50.00 as for an empty list
C29_Witness ==
    /\ calc.pc = "returned"
    /\ Len(calc.responses) = 3
    /\ {calc.responses[i].facet_code : i \in 1..3}
          = {<<"o", "f", 1>>, <<"O", "F", 7>>, <<"X", "F", 1>>}
    /\ \A i \in 1..3 : calc.responses[i].point = <<5>>
    /\ calc.out.value["facets"][<<"o", "f", 1>>] = 5000
    /\ calc.out.value["o"] = 5000

-----------------------------------------------------------------------------
(* Claims about the validator, under SpecUnit *)

Validated == unit.fn = "validate" /\ unit.pc \in {"raised", "returned", "again"}

WithinTenNinety(v) == v >= 1000 /\ v <= 9000

\* the domain and facet values a score map holds
DomainValues(m) == {m[d] : d \in {"o", "c", "e", "a", "n"} \cap DOMAIN m}
FacetValues(m) ==
    IF "facets" \in DOMAIN m
    THEN {m["facets"][k] : k \in DOMAIN m["facets"]}
    ELSE {}

AbsentDomains(m) == {"o", "c", "e", "a", "n"} \ DOMAIN m
AbsentFacets(m) == ApiFacetKeys \ DOMAIN m["facets"]

Complete(m) ==
    /\ AbsentDomains(m) = {}
    /\ "facets" \in DOMAIN m
    /\ AbsentFacets(m) = {}

\* C12: validate accepts a complete score map all of whose values lie in
\* [10.00, 90.00], the end points included, and raises a ValidationError,
\* returning nothing, for every map that holds a domain or facet value below
\* 10.00 or above 90.00.
C12_BandInclusive ==
    Validated =>
        LET m == unit.arg.value
            values == DomainValues(m) \cup FacetValues(m)
        IN  /\ (Complete(m) /\ \A v \in values : WithinTenNinety(v))
                  => (~unit.out.raised /\ "value" \in DOMAIN unit.out)
            /\ (\E v \in values : ~WithinTenNinety(v))
                  => /\ unit.out.raised
                     /\ unit.out.kind = "ValidationError"
                     /\ "value" \notin DOMAIN unit.out

\* a map with a domain at 10.00 and a facet at 90.00 was accepted
C12_Witness ==
    /\ unit.fn = "validate"
    /\ unit.pc = "returned"
    /\ unit.arg.value["a"] = 1000
    /\ unit.arg.value["facets"][<<"n", "f", 3>>] = 9000

\* C13 as amended: with domain keys absent the error names exactly the absent
\* domain keys; with all domain keys present, every domain value in the band
\* and a facets dict that lacks some of the 30 keys, the error names exactly
\* the absent facet keys.
C13_NamesAbsentKeys ==
    Validated =>
        LET m == unit.arg.value
        IN  /\ AbsentDomains(m) # {} =>
                  /\ unit.out.raised
                  /\ unit.out.kind = "ValidationError"
                  /\ unit.out.msg.texts = <<"Missing required domains: ">>
                  /\ unit.out.msg.names = {<<d>> : d \in AbsentDomains(m)}
            /\ (/\ AbsentDomains(m) = {}
                /\ \A v \in DomainValues(m) : WithinTenNinety(v)
                /\ "facets" \in DOMAIN m
                /\ AbsentFacets(m) # {}) =>
                  /\ unit.out.raised
                  /\ unit.out.kind = "ValidationError"
                  /\ unit.out.msg.texts = <<"Missing facets: ">>
                  /\ unit.out.msg.names = AbsentFacets(m)

\* a map with its five domains and without e_f1 and n_f6 was refused
C13_Witness ==
    /\ unit.fn = "validate"
    /\ unit.pc = "raised"
    /\ unit.out.msg.names = {<<"e", "f", 1>>, <<"n", "f", 6>>}
    /\ AbsentDomains(unit.arg.value) = {}

\* C13 as stated: whenever all domain keys are present and the facets dict
\* lacks some of the 30 keys, the error names exactly the absent facet keys.
C13_AsStated ==
    Validated =>
        LET m == unit.arg.value
        IN  (/\ AbsentDomains(m) = {}
             /\ "facets" \in DOMAIN m
             /\ AbsentFacets(m) # {}) =>
                /\ unit.out.raised
                /\ unit.out.msg.names = AbsentFacets(m)

\* the j-th of the 35 scores of a score map or of a ScoreResult
Score35(m, j) ==
    IF j <= 5 THEN m[ocean[j]]
    ELSE m["facets"][<<ocean[((j - 6) \div 6) + 1], "f", ((j - 6) % 6) + 1>>]

C15_ExactResultKeys ==
    (unit.fn = "validate" /\ unit.pc = "returned") =>
        LET res == unit.out.value
        IN  /\ DOMAIN res = {"o", "c", "e", "a", "n", "facets"}
            /\ DOMAIN res["facets"] = ApiFacetKeys
            /\ \A v \in DomainValues(res) \cup FacetValues(res) : WithinTenNinety(v)

\* what does hold of a returned result: the five domains, at least the 30
\* facet keys, and every value, of an added key too, within [10.00, 90.00]
C15_AtLeastThirty ==
    (unit.fn = "validate" /\ unit.pc = "returned") =>
        LET res == unit.out.value
        IN  /\ DOMAIN res = {"o", "c", "e", "a", "n", "facets"}
            /\ ApiFacetKeys \subseteq DOMAIN res["facets"]
            /\ DOMAIN res["facets"] = DOMAIN unit.arg.value["facets"]
            /\ \A v \in DomainValues(res) \cup FacetValues(res) : WithinTenNinety(v)

\* a returned result with 31 facet keys
C15_Witness ==
    /\ unit.fn = "validate"
    /\ unit.pc = "returned"
    /\ Cardinality(DOMAIN unit.out.value["facets"]) = 31
    /\ <<"x", "f", 1>> \in DOMAIN unit.out.value["facets"]

\* the required keys a score map lacks
LacksKey(m) ==
    \/ AbsentDomains(m) # {}
    \/ "facets" \notin DOMAIN m
    \/ AbsentFacets(m) # {}

\* C23 as amended: a score map that lacks a required key is refused with a
\* ValidationError naming the keys the first failing check found missing: the
\* absent domain keys and no facet key when a domain key is absent; otherwise,
\* with every domain value in the band, the facets mapping when it is absent,
\* or else the absent facet keys.
C23_NamesFirstMissing ==
    Validated =>
        LET m == unit.arg.value
        IN  LacksKey(m) =>
              /\ unit.out.raised
              /\ unit.out.kind = "ValidationError"
              /\ "value" \notin DOMAIN unit.out
              /\ AbsentDomains(m) # {} =>
                    unit.out.msg = [texts |-> <<"Missing required domains: ">>,
                                    names |-> {<<d>> : d \in AbsentDomains(m)}]
              /\ (/\ AbsentDomains(m) = {}
                  /\ \A v \in DomainValues(m) : WithinTenNinety(v)) =>
                    IF "facets" \notin DOMAIN m
                    THEN unit.out.msg =
                            [texts |-> <<"Missing 'facets' dictionary in scores">>,
                             names |-> {}]
                    ELSE unit.out.msg = [texts |-> <<"Missing facets: ">>,
                                         names |-> AbsentFacets(m)]

\* a map without n and without e_f1 was refused with an error naming n alone
C23_Witness ==
    /\ unit.fn = "validate"
    /\ unit.pc = "raised"
    /\ AbsentDomains(unit.arg.value) = {"n"}
    /\ "facets" \in DOMAIN unit.arg.value
    /\ AbsentFacets(unit.arg.value) = {<<"e", "f", 1>>}
    /\ unit.out.msg.names = {<<"n">>}

\* C23 as stated: the error for a map that lacks required keys names every one
\* of them, absent domain keys and absent facet keys together.
C23_AsStated ==
    Validated =>
        LET m == unit.arg.value
        IN  LacksKey(m) =>
              /\ unit.out.raised
              /\ \A d \in AbsentDomains(m) : <<d>> \in unit.out.msg.names
              /\ IF "facets" \notin DOMAIN m
                 THEN AbsentDomains(m) = {} =>
                        unit.out.msg.texts = <<"Missing 'facets' dictionary in scores">>
                 ELSE \A k \in AbsentFacets(m) : k \in unit.out.msg.names

-----------------------------------------------------------------------------
(* Claims about the domain-means step, under SpecUnit *)

DomainMeansDone ==
    unit.fn = "_calculate_domain_means" /\ unit.pc \in {"raised", "returned"}

\* the number of the six facet codes of a domain that the input holds
FacetsFound(d, t) ==
    Cardinality({i \in 1..6 : <<d, "F", i>> \in DOMAIN t})

ShortDomains(t) == {d \in {"O", "C", "E", "A", "N"} : FacetsFound(d, t) < 6}

\* C20: when a domain has fewer than 6 facet T-scores in the input, the
\* domain-means step raises an error naming one such domain and the number of
\* its facets found, and yields no domain scores; otherwise it returns the five
\* domain scores.
C20_ShortDomainRaises ==
    DomainMeansDone =>
        IF ShortDomains(unit.arg) # {}
        THEN /\ unit.pc = "raised"
             /\ unit.out.raised
             /\ unit.out.kind = "ValueError"
             /\ "value" \notin DOMAIN unit.out
             /\ \E d \in ShortDomains(unit.arg) :
                   /\ unit.out.msg.names = {d}
                   /\ unit.out.msg.texts =
                        <<"Domain ", d, " has ", FacetsFound(d, unit.arg),
                          " facets with scores, expected 6">>
        ELSE /\ unit.pc = "returned"
             /\ ~unit.out.raised
             /\ DOMAIN unit.out.value = {"O", "C", "E", "A", "N"}

\* the input of the test: O_F2 absent, the other 29 present; the error names
\* O and 5
C20_Witness ==
    /\ DomainMeansDone
    /\ DOMAIN unit.arg = all_facet_codes \ {<<"O", "F", 2>>}
    /\ unit.pc = "raised"
    /\ unit.out.msg.texts[2] = "O"
    /\ unit.out.msg.texts[4] = 5

-----------------------------------------------------------------------------
(* Claims about save_profile's check of the keys, under SpecUnit *)

SaveProfileCalled ==
    unit.fn = "save_profile" /\ unit.pc \in {"raised", "awaiting"}

AllScoreKeys ==
    {<<d>> : d \in {"o", "c", "e", "a", "n"}}
        \cup {<<d, "f", i>> : d \in {"o", "c", "e", "a", "n"}, i \in 1..6}

\* C21: save_profile looks at the keys first: with a domain or facet score
\* missing it raises RepositoryError naming missing keys (the missing domain
\* keys, or the missing facet keys when no domain key is missing) and has sent
\* nothing to the database client and changed no row; with all 35 present it
\* goes on to the lookup.
C21_KeysBeforeStore ==
    SaveProfileCalled =>
        LET absent == AllScoreKeys \ DOMAIN unit.arg
            absent_domains == {k \in absent : Len(k) = 1}
        IN  /\ store = {}
            /\ nextId = 1
            /\ IF absent # {}
               THEN /\ unit.pc = "raised"
                    /\ unit.out.raised
                    /\ unit.out.kind = "RepositoryError"
                    /\ unit.awaited = <<>>
                    /\ unit.out.msg.names =
                          IF absent_domains # {} THEN absent_domains ELSE absent
                    /\ \E i \in 1..Len(unit.out.msg.texts) :
                          unit.out.msg.texts[i] =
                              IF absent_domains # {}
                              THEN "Missing required domain scores: "
                              ELSE "Missing required facet scores: "
               ELSE /\ unit.pc = "awaiting"
                    /\ unit.awaited = <<"existing_profile_query">>

\* o_f1 alone is missing, as in the repository's test: the error names it and
\* nothing was awaited
C21_Witness ==
    /\ SaveProfileCalled
    /\ AllScoreKeys \ DOMAIN unit.arg = {<<"o", "f", 1>>}
    /\ unit.pc = "raised"
    /\ unit.out.msg.names = {<<"o", "f", 1>>}
    /\ unit.awaited = <<>>

-----------------------------------------------------------------------------
(* Claims about several rows of one user, under SpecRows *)

\* the rows of a user that no other row of the user is created after
LatestRows(rows, u) ==
    {r \in rows : r.USER_ID = u
                  /\ \A o \in rows : o.USER_ID = u => o.CREATED <= r.CREATED}

\* C24 as amended: an UPDATE of a save that overlaps no other save of the user
\* changes one row only, a row with the latest created timestamp of the user
\* (any of them when timestamps tie), sets its timestamp to the present and
\* leaves every other row as it is; the id returned is that row's.  Once one
\* row of the user is created later than all the others, every step keeps the
\* latest row's id: later non-overlapping saves target and return that row.
C24_UpdatesLatestRow ==
    [][/\ \A p \in Tasks :
             LET u == task[p].user_id
                 id == task[p].profile_id_to_use
             IN  /\ (/\ task[p].pc = "write" /\ task'[p].pc = "written"
                     /\ ~task[p].is_new_profile
                     /\ ~hist.overlapped[u]) =>
                       \E r \in LatestRows(store, u) :
                          \E w \in store' :
                             /\ r.PROFILE_ID = id
                             /\ w.PROFILE_ID = id
                             /\ w.USER_ID = u
                             /\ w.CREATED = clock
                             /\ w.by = p
                             /\ store' \ {w} = store \ {r}
                             /\ id \notin ProfileIds(store \ {r})
                 /\ (task[p].pc = "written" /\ task'[p].pc = "done") =>
                       task'[p].result.profile_id = id
       /\ \A u \in Users :
             (~hist'.overlapped[u] /\ Cardinality(LatestRows(store, u)) = 1) =>
                ProfileIds(LatestRows(store', u)) = ProfileIds(LatestRows(store, u))
      ]_vars

\* two saves for u1, one after the other, both updated the same one of the two
\* rows and returned its id; the other row is as it was
C24_Witness ==
    /\ ~hist.overlapped["u1"]
    /\ hist.ops["u1"] = <<"UPDATE", "UPDATE">>
    /\ Cardinality(hist.returned["u1"]) = 1
    /\ \E a, b \in store :
          /\ a.USER_ID = "u1" /\ b.USER_ID = "u1"
          /\ a.by = 0 /\ a.CREATED <= 0
          /\ b.by # 0 /\ b.PROFILE_ID \in hist.returned["u1"]
    /\ \A p \in Tasks : task[p].pc \in {"idle", "done"}

\* C24 as stated: the non-overlapping saves of a user all target one row, so
\* at most one of the user's rows is ever written by them.
C24_AsStated ==
    \A u \in Users :
        ~hist.overlapped[u] =>
            Cardinality({r \in store : r.USER_ID = u /\ r.by # 0}) <= 1

-----------------------------------------------------------------------------
(* Claims about termination, under SpecLive *)

Running(p) == task[p].pc \notin {"idle", "done", "failed"}

StageKinds ==
    {"PersonalityDataFetcherError", "ScoreCalculationError",
     "ValidationError", "ProfileSavingError"}

\* C30: every run of process_user_test that has been started ends, either
\* with a result (profile_id and scores) and no error, or with no result and
\* an error that is one of PersonalityDataFetcherError, ScoreCalculationError,
\* ValidationError, ProfileSavingError: the kind of the stage that raised.
C30_RunsTerminate ==
    \A p \in Tasks :
        /\ Running(p) ~> (task[p].pc \in {"done", "failed"})
        /\ [](task[p].pc = "done" =>
                /\ ~task[p].error.raised
                /\ DOMAIN task[p].result = {"profile_id", "scores"})
        /\ [](task[p].pc = "failed" =>
                /\ task[p].result = <<>>
                /\ task[p].error.raised
                /\ task[p].error.kind \in StageKinds
                /\ task[p].error.kind =
                      CASE hist.run[p].raised_in = "fetch_data" ->
                              "PersonalityDataFetcherError"
                        [] hist.run[p].raised_in = "calculate_scores" ->
                              "ScoreCalculationError"
                        [] hist.run[p].raised_in = "validate" -> "ValidationError"
                        [] hist.run[p].raised_in = "save" -> "ProfileSavingError"
                        [] OTHER -> "")

\* one run has ended with a result, the other with the calculator's error
C30_Witness ==
    /\ task[1].pc = "done"
    /\ task[1].result # <<>>
    /\ task[2].pc = "failed"
    /\ task[2].error.kind = "ScoreCalculationError"
    /\ hist.started = 2

====
